---------------------------- MODULE Spec2Model ----------------------------
(***************************************************************************)
(* Device sync engine of wealthfolio: the local sync store (outbox,        *)
(* applied-event log, per-row LWW metadata, cursor, engine state), the     *)
(* replay applier, and the push/pull cycle engine talking to the relay.    *)
(*                                                                         *)
(* One table of the syncable catalog is modelled (a primary key column     *)
(* "id" and one nullable data column "amount"); a store is a record of     *)
(* tables, a table a function from the keys present to the rows.           *)
(***************************************************************************)
EXTENDS Integers, Sequences, FiniteSets, TLC

VARIABLES
    db,        \* db[s]: the SQLite database file s (data table + sync tables)
    relay,     \* the relay: event log, GC watermark, latest snapshot
    pc,        \* pc[r]: where caller r of run_sync_cycle stands
    ctx,       \* ctx[r]: the locals of r's cycle (CycleContext and friends)
    result,    \* result[r]: what r's last run_sync_cycle returned
    mutex,     \* mutex[p]: holder of process p's cycle_mutex, or NoRunner
    topo,      \* which store, process and device each caller belongs to
    calls,     \* calls[r]: cycles r has started (bounds the run)
    lastCall,  \* the last direct call of a store operation and its return
    replayed,  \* the remote events handed to the replay applier so far
    won,       \* won[id]: the event with this id whose apply last returned true
    runtime    \* what one process shares besides the cycle mutex: the cancel
               \* flag, the uploads in flight, the background task

vars == <<db, relay, pc, ctx, result, mutex, topo, calls, lastCall, replayed, won,
          runtime>>

---------------------------------------------------------------------------
(* Bounds of the model *)

MaxEventId == 3     \* event ids are 1..MaxEventId, ordered as the id strings are
MaxWall == 1        \* wall-clock hours written in a timestamp: 0..MaxWall
MaxSeq == 2         \* relay sequence numbers are 1..MaxSeq
MaxCycles == 2      \* cycles started where the relay requests are single steps
MaxPulls == 2       \* pull requests of one cycle
MaxDeviceCycles == 5    \* cycles the two devices start between them
MaxPushCycles == 3  \* cycles started where only the outbox and the push are followed
MaxRetries == 10    \* retry counts for which the delay is computed

EventIds == 1..MaxEventId
Seqs == 1..MaxSeq
EntityIds == {"g1"}
Values == {"100", "200"}
Null == "NULL"

---------------------------------------------------------------------------
(* RFC 3339 timestamp strings.  A string is modelled by its parts: the     *)
(* wall-clock hour, the sub-second fraction (in units of 100 microseconds, *)
(* always written with four digits) and the zone suffix.  A string without *)
(* zone suffix is not RFC 3339.  Comparing two strings compares wall,      *)
(* fraction and suffix in this order ("" < "+00:00" < "+01:00").           *)
(* The strings used: every hour with each suffix, and for UTC also half a  *)
(* millisecond past the hour.                                              *)

Zones == {"", "+00:00", "+01:00"}
Fracs == {0, 5}
Timestamps ==
    {t \in [wall : 0..MaxWall, frac : Fracs, zone : Zones] :
        t.frac = 0 \/ t.zone = "+00:00"}

ZoneRank(z) == CASE z = "" -> 0 [] z = "+00:00" -> 1 [] z = "+01:00" -> 2

ZoneOffsetHours(z) == IF z = "+01:00" THEN 1 ELSE 0

\* chrono::DateTime::parse_from_rfc3339(..).map(|dt| dt.timestamp_millis())
parse_timestamp_millis(ts) ==
    IF ts.zone = ""
    THEN [ok |-> FALSE, millis |-> 0]
    ELSE [ok |-> TRUE,
          millis |-> (ts.wall - ZoneOffsetHours(ts.zone)) * 3600000
                       + (ts.frac \div 10)]

\* &str comparison of two timestamp strings
StrGreater(a, b) ==
    \/ a.wall > b.wall
    \/ a.wall = b.wall /\ a.frac > b.frac
    \/ a.wall = b.wall /\ a.frac = b.frac /\ ZoneRank(a.zone) > ZoneRank(b.zone)

\* The rule with >= in place of >: an equal timestamp wins whatever the id
should_apply_lww_ge(local_client_timestamp, local_event_id, remote_client_timestamp, remote_event_id) ==
    LET local_parsed == parse_timestamp_millis(local_client_timestamp)
        remote_parsed == parse_timestamp_millis(remote_client_timestamp)
    IN  IF local_parsed.ok /\ remote_parsed.ok
        THEN remote_parsed.millis >= local_parsed.millis
        ELSE \/ StrGreater(remote_client_timestamp, local_client_timestamp)
             \/ remote_client_timestamp = local_client_timestamp

\* The rule with the timestamps always compared as strings
should_apply_lww_lexical(local_client_timestamp, local_event_id, remote_client_timestamp, remote_event_id) ==
    IF StrGreater(remote_client_timestamp, local_client_timestamp)
    THEN TRUE
    ELSE IF remote_client_timestamp = local_client_timestamp
         THEN remote_event_id > local_event_id
         ELSE FALSE

should_apply_lww(local_client_timestamp, local_event_id, remote_client_timestamp, remote_event_id) ==
    LET local_parsed == parse_timestamp_millis(local_client_timestamp)
        remote_parsed == parse_timestamp_millis(remote_client_timestamp)
    IN  IF local_parsed.ok /\ remote_parsed.ok
        THEN IF remote_parsed.millis > local_parsed.millis THEN TRUE
             ELSE IF remote_parsed.millis = local_parsed.millis
                  THEN remote_event_id > local_event_id
                  ELSE FALSE
        ELSE IF StrGreater(remote_client_timestamp, local_client_timestamp)
             THEN TRUE
             ELSE IF remote_client_timestamp = local_client_timestamp
                  THEN remote_event_id > local_event_id
                  ELSE FALSE

---------------------------------------------------------------------------
(* JSON payloads and the data table *)

TableColumns == {"id", "amount"}
DataColumns == TableColumns \ {"id"}
PkName == "id"

\* A payload is a JSON value: an object (a function from its keys to
\* values) or something else.
Payload(obj, f) == [object |-> obj, fields |-> f]

Restrict(f, S) == [x \in S |-> f[x]]

payload_value_matches_entity_id(value, entity_id) == value = entity_id

\* validate_payload_columns: every key is a column of the table
\* A check that lets every key pass.
validate_payload_columns_any(keys) == TRUE

validate_payload_columns(keys) == keys \subseteq TableColumns

\* INSERT INTO t (cols) VALUES (..) ON CONFLICT(pk) DO UPDATE SET col=excluded.col
Upsert(rows, entity_id, fields) ==
    LET given == DOMAIN fields \ {PkName}
        old == IF entity_id \in DOMAIN rows
               THEN rows[entity_id]
               ELSE [c \in DataColumns |-> Null]
        new == [c \in DataColumns |-> IF c \in given THEN fields[c] ELSE old[c]]
    IN  [k \in DOMAIN rows \cup {entity_id} |->
            IF k = entity_id THEN new ELSE rows[k]]

\* DELETE FROM t WHERE pk = entity_id
DeleteRow(rows, entity_id) == Restrict(rows, DOMAIN rows \ {entity_id})

---------------------------------------------------------------------------
(* The local database: the data table and the sync tables *)

EmptyFn == [x \in {} |-> TRUE]

Put(f, k, v) == [x \in DOMAIN f \cup {k} |-> IF x = k THEN v ELSE f[x]]

\* Columns that hold a time are kept as "set or not"; next_retry_in is the
\* delay in seconds that next_retry_at was computed from, 0 when it is NULL.
EngineRow(lock_version, last_push_at, last_pull_at, last_error, consecutive_failures, next_retry_in, last_cycle_status) ==
    [present |-> TRUE, lock_version |-> lock_version,
     last_push_at |-> last_push_at, last_pull_at |-> last_pull_at,
     last_error |-> last_error, consecutive_failures |-> consecutive_failures,
     next_retry_in |-> next_retry_in, last_cycle_status |-> last_cycle_status]

NoEngineState == [EngineRow(0, FALSE, FALSE, FALSE, 0, 0, "") EXCEPT !.present = FALSE]

EmptyStore ==
    [goals |-> EmptyFn,                  \* the syncable data table, by primary key
     sync_outbox |-> EmptyFn,            \* by event_id
     sync_entity_metadata |-> EmptyFn,   \* by entity_id
     sync_applied_events |-> EmptyFn,    \* event_id -> seq
     sync_cursor |-> [present |-> FALSE, cursor |-> 0],
     sync_device_config |-> [present |-> FALSE, trust_state |-> "",
                             last_bootstrap_at |-> FALSE, key_version |-> 0],
     sync_engine_state |-> NoEngineState]

Ok(v, conn) == [ok |-> TRUE, value |-> v, conn |-> conn]
Err(conn) == [ok |-> FALSE, value |-> FALSE, conn |-> conn]

\* The row a create/update/request payload must satisfy before the upsert
PayloadRejected(ev) ==
    \/ ~ev.payload.object
    \/ /\ PkName \in DOMAIN ev.payload.fields
       /\ ~payload_value_matches_entity_id(ev.payload.fields[PkName], ev.entity_id)
    \/ ~validate_payload_columns(DOMAIN ev.payload.fields \cup {PkName})

\* The applier without the look into the applied-event log
apply_remote_event_lww_tx_unguarded(conn, ev) ==
    LET has_meta == ev.entity_id \in DOMAIN conn.sync_entity_metadata
        meta == conn.sync_entity_metadata[ev.entity_id]
        should_apply ==
            IF has_meta
            THEN should_apply_lww(meta.last_client_timestamp, meta.last_event_id,
                                  ev.client_timestamp, ev.event_id)
            ELSE TRUE
        new_meta == [last_event_id |-> ev.event_id,
                     last_client_timestamp |-> ev.client_timestamp,
                     last_seq |-> ev.seq]
        written ==
            IF should_apply
            THEN [conn EXCEPT
                    !.goals = IF ev.op = "delete"
                              THEN DeleteRow(@, ev.entity_id)
                              ELSE Upsert(@, ev.entity_id, ev.payload.fields),
                    !.sync_entity_metadata = Put(@, ev.entity_id, new_meta)]
            ELSE conn
        logged == [written EXCEPT
                    !.sync_applied_events =
                        IF ev.event_id \in DOMAIN @ THEN @
                        ELSE Put(@, ev.event_id, ev.seq)]
    IN  IF should_apply /\ ev.op # "delete" /\ PayloadRejected(ev)
        THEN Err(conn)
        ELSE Ok(should_apply, logged)

apply_remote_event_lww_tx(conn, ev) ==
    LET already_applied == ev.event_id \in DOMAIN conn.sync_applied_events
        has_meta == ev.entity_id \in DOMAIN conn.sync_entity_metadata
        meta == conn.sync_entity_metadata[ev.entity_id]
        should_apply ==
            IF has_meta
            THEN should_apply_lww(meta.last_client_timestamp, meta.last_event_id,
                                  ev.client_timestamp, ev.event_id)
            ELSE TRUE
        new_meta == [last_event_id |-> ev.event_id,
                     last_client_timestamp |-> ev.client_timestamp,
                     last_seq |-> ev.seq]
        written ==
            IF should_apply
            THEN [conn EXCEPT
                    !.goals = IF ev.op = "delete"
                              THEN DeleteRow(@, ev.entity_id)
                              ELSE Upsert(@, ev.entity_id, ev.payload.fields),
                    !.sync_entity_metadata = Put(@, ev.entity_id, new_meta)]
            ELSE conn
        logged == [written EXCEPT
                    !.sync_applied_events =
                        IF ev.event_id \in DOMAIN @ THEN @
                        ELSE Put(@, ev.event_id, ev.seq)]
    IN  IF already_applied
        THEN Ok(FALSE, conn)
        ELSE IF should_apply /\ ev.op # "delete" /\ PayloadRejected(ev)
             THEN Err(conn)
             ELSE Ok(should_apply, logged)

\* writer.exec(job): the job runs on the single writer connection inside a
\* transaction; Ok commits what the job wrote, Err rolls all of it back.
WriterExec(store, job_result) ==
    IF job_result.ok
    THEN job_result
    ELSE [job_result EXCEPT !.conn = store]

apply_remote_event_lww(store, ev) ==
    WriterExec(store, apply_remote_event_lww_tx(store, ev))

\* The closure of apply_remote_events_lww_batch: events in order, the first
\* error ends the job.
RECURSIVE BatchJob(_, _, _)
BatchJob(conn, events, applied) ==
    IF events = <<>>
    THEN Ok(applied, conn)
    ELSE LET r == apply_remote_event_lww_tx(conn, Head(events))
         IN  IF ~r.ok
             THEN [ok |-> FALSE, value |-> 0, conn |-> r.conn]
             ELSE BatchJob(r.conn, Tail(events),
                           IF r.value THEN applied + 1 ELSE applied)

\* A batch without the transaction: what the job wrote stays when it fails
apply_remote_events_lww_batch_partial(store, events) ==
    BatchJob(store, events, 0)

apply_remote_events_lww_batch(store, events) ==
    IF events = <<>>
    THEN Ok(0, store)
    ELSE WriterExec(store, BatchJob(store, events, 0))

get_cursor(store) ==
    IF store.sync_cursor.present THEN store.sync_cursor.cursor ELSE 0

set_cursor(store, cursor_value) ==
    [store EXCEPT !.sync_cursor = [present |-> TRUE, cursor |-> cursor_value]]

prune_applied_events_up_to_seq(store, seq_cutoff) ==
    [store EXCEPT !.sync_applied_events =
        Restrict(@, {id \in DOMAIN @ : ~(@[id] <= seq_cutoff)})]

---------------------------------------------------------------------------
(* Outbox and engine state *)

\* A repository write of the row and its outbox event, in one transaction.
\* The request carries no timestamp of its own: client_timestamp is the
\* writer's clock.  No entity metadata is written.
\* The key_version of the sync identity in the secret store.
IdentityKeyVersion ==
    IF topo.name = "encrypt" THEN 2
    ELSE IF topo.name = "snapshot" THEN topo.key_version
    ELSE 1

\* A request leaves the version to the store (0): it is the key_version of
\* the trusted device row, or 1.
resolve_payload_key_version(conn, requested_version) ==
    IF requested_version > 0 THEN requested_version
    ELSE IF conn.sync_device_config.present
              /\ conn.sync_device_config.trust_state = "trusted"
              /\ conn.sync_device_config.key_version >= 1
         THEN conn.sync_device_config.key_version
         ELSE 1

OutboxRow(entity_id, op, client_timestamp, payload, payload_key_version, created_at) ==
    [entity_id |-> entity_id, op |-> op, client_timestamp |-> client_timestamp,
     payload |-> payload, payload_key_version |-> payload_key_version,
     sent |-> FALSE, status |-> "pending",
     retry_count |-> 0, next_retry_in |-> 0, last_error_code |-> "",
     created_at |-> created_at]

write_outbox_event(conn, event_id, entity_id, op, client_timestamp, payload) ==
    [conn EXCEPT !.sync_outbox =
        Put(@, event_id,
            OutboxRow(entity_id, op, client_timestamp, payload,
                      resolve_payload_key_version(conn, 0),
                      Cardinality(DOMAIN @) + 1))]

IsPending(row, elapsed) ==
    /\ row.status = "pending"
    /\ ~row.sent
    /\ row.next_retry_in = 0 \/ elapsed

RECURSIVE SortByCreated(_, _)
SortByCreated(outbox, ids) ==
    IF ids = {} THEN <<>>
    ELSE LET first == CHOOSE i \in ids :
                          \A j \in ids : outbox[i].created_at <= outbox[j].created_at
         IN  <<first>> \o SortByCreated(outbox, ids \ {first})

\* list_pending_outbox: the ids of the pending rows whose retry time is not
\* in the future, oldest first; elapsed says whether the delays have passed.
list_pending_outbox(store, elapsed) ==
    SortByCreated(store.sync_outbox,
                  {i \in DOMAIN store.sync_outbox :
                      IsPending(store.sync_outbox[i], elapsed)})

\* Every row of the outbox marked sent, whatever the relay listed
mark_outbox_sent_all(store, event_ids) ==
    [store EXCEPT !.sync_outbox =
        [i \in DOMAIN @ |->
            [@[i] EXCEPT !.sent = TRUE, !.status = "sent",
                         !.next_retry_in = 0, !.last_error_code = ""]]]

mark_outbox_sent(store, event_ids) ==
    [store EXCEPT !.sync_outbox =
        [i \in DOMAIN @ |->
            IF i \in event_ids
            THEN [@[i] EXCEPT !.sent = TRUE, !.status = "sent",
                              !.next_retry_in = 0, !.last_error_code = ""]
            ELSE @[i]]]

schedule_outbox_retry(store, event_ids, backoff, last_error_code) ==
    [store EXCEPT !.sync_outbox =
        [i \in DOMAIN @ |->
            IF i \in event_ids
            THEN [@[i] EXCEPT !.retry_count = @ + 1, !.next_retry_in = backoff,
                              !.status = "pending",
                              !.last_error_code = last_error_code]
            ELSE @[i]]]

mark_outbox_dead(store, event_ids, last_error_code) ==
    [store EXCEPT !.sync_outbox =
        [i \in DOMAIN @ |->
            IF i \in event_ids
            THEN [@[i] EXCEPT !.status = "dead", !.last_error_code = last_error_code]
            ELSE @[i]]]

upsert_device_config(store, trust_state) ==
    [store EXCEPT !.sync_device_config =
        [@ EXCEPT !.present = TRUE, !.trust_state = trust_state,
                  !.key_version = IdentityKeyVersion]]

acquire_cycle_lock(store) ==
    LET next_lock_version ==
            IF store.sync_engine_state.present
            THEN store.sync_engine_state.lock_version + 1
            ELSE 1
    IN  [value |-> next_lock_version,
         store |-> [store EXCEPT !.sync_engine_state =
                       IF @.present
                       THEN [@ EXCEPT !.lock_version = next_lock_version]
                       ELSE EngineRow(next_lock_version, FALSE, FALSE, FALSE, 0, 0, "")]]

verify_cycle_lock(store, expected_version) ==
    /\ store.sync_engine_state.present
    /\ store.sync_engine_state.lock_version = expected_version

mark_push_completed(store) ==
    [store EXCEPT !.sync_engine_state =
        IF @.present
        THEN [@ EXCEPT !.last_push_at = TRUE, !.last_error = FALSE,
                       !.consecutive_failures = 0, !.next_retry_in = 0,
                       !.last_cycle_status = "ok"]
        ELSE EngineRow(0, TRUE, FALSE, FALSE, 0, 0, "ok")]

\* A completion of the pull that writes the whole row, lock_version 0
\* included
mark_pull_completed_whole_row(store) ==
    [store EXCEPT !.sync_engine_state = EngineRow(0, FALSE, TRUE, FALSE, 0, 0, "ok")]

mark_pull_completed(store) ==
    [store EXCEPT !.sync_engine_state =
        IF @.present
        THEN [@ EXCEPT !.last_pull_at = TRUE, !.last_error = FALSE,
                       !.consecutive_failures = 0, !.next_retry_in = 0,
                       !.last_cycle_status = "ok"]
        ELSE EngineRow(0, FALSE, TRUE, FALSE, 0, 0, "ok")]

mark_engine_error(store) ==
    [store EXCEPT !.sync_engine_state =
        IF @.present
        THEN [@ EXCEPT !.last_error = TRUE,
                       !.consecutive_failures = @ + 1,
                       !.last_cycle_status = "error"]
        ELSE EngineRow(0, FALSE, FALSE, TRUE, 1, 0, "error")]

mark_cycle_outcome(store, status, next_retry_in) ==
    [store EXCEPT !.sync_engine_state =
        IF @.present
        THEN [@ EXCEPT !.last_cycle_status = status,
                       !.next_retry_in = next_retry_in]
        ELSE EngineRow(0, FALSE, FALSE, FALSE, 0, next_retry_in, status)]

\* A delay that grows by five seconds with each retry
backoff_seconds_linear(retry_count) == 5 * (retry_count + 1)

\* backoff_seconds: 5 * 2^clamp(retry_count, 0, 8)
backoff_seconds(retry_count) ==
    LET exp == IF retry_count < 0 THEN 0
               ELSE IF retry_count > 8 THEN 8 ELSE retry_count
    IN  5 * (2 ^ exp)

---------------------------------------------------------------------------
(* Who runs: callers of run_sync_cycle, the processes they live in, the    *)
(* database file each process opens and the device identity it holds.      *)

Stores == {"A", "B"}
Runners == {"r1", "r2"}
NoRunner == "none"
Ops == {"create", "update", "delete", "request"}

Obj(keys, id_value, amount_value) ==
    Payload(TRUE, [k \in keys |-> CASE k = "id" -> id_value
                                    [] k = "amount" -> amount_value
                                    [] OTHER -> "x"])

NotAnObject == Payload(FALSE, EmptyFn)

\* Whole rows, as the local repositories serialise them
FullPayloads == {Obj({"id", "amount"}, "g1", v) : v \in Values}

\* The key alone: what a delete carries, and a partial update
KeyOnlyPayload == Obj({"id"}, "g1", Null)

\* What a relay event may ask for: an operation and the decrypted payload
ReplayKinds ==
    {<<"create", Obj({"id", "amount"}, "g1", "100")>>,
     <<"update", Obj({"id", "amount"}, "g1", "200")>>,
     <<"update", KeyOnlyPayload>>,
     <<"request", Obj({"nonexistent_column"}, "g1", Null)>>,
     <<"delete", KeyOnlyPayload>>}

\* The relay numbers the events it stores: one seq per event id
SeqOfEvent(event_id) == IF event_id > MaxSeq THEN MaxSeq ELSE event_id

RemoteEvent(entity_id, op, event_id, client_timestamp, seq, payload) ==
    [entity_id |-> entity_id, op |-> op, event_id |-> event_id,
     client_timestamp |-> client_timestamp, seq |-> seq, payload |-> payload]

ReplayEvents ==
    {RemoteEvent(e, k[1], i, t, SeqOfEvent(i), k[2]) :
        e \in EntityIds, k \in ReplayKinds, i \in EventIds, t \in Timestamps}

NoCall == [op |-> "none", event_id |-> 0, ret |-> "none", again |-> FALSE]

RetOf(r) == IF ~r.ok THEN "error" ELSE IF r.value THEN "true" ELSE "false"

Procs == {"p1", "p2"}
Devices == {"devA", "devB"}

Topology(name, store, proc, device) ==
    [name |-> name, store |-> store, proc |-> proc, device |-> device]

\* One process, one database; r1 is the background loop, r2 a manual trigger
OneProcess ==
    Topology("process", [r \in Runners |-> "A"], [r \in Runners |-> "p1"],
             [r \in Runners |-> "devA"])

\* Two devices, each with its own database, and a relay that keeps the log
TwoDevices ==
    Topology("devices", [r \in Runners |-> IF r = "r1" THEN "A" ELSE "B"],
             [r \in Runners |-> IF r = "r1" THEN "p1" ELSE "p2"],
             [r \in Runners |-> IF r = "r1" THEN "devA" ELSE "devB"])

\* Two processes of one device on the same database file
SharedDatabase ==
    Topology("shared", [r \in Runners |-> "A"],
             [r \in Runners |-> IF r = "r1" THEN "p1" ELSE "p2"],
             [r \in Runners |-> "devA"])

StoreOnly(name) ==
    Topology(name, [r \in Runners |-> "A"], [r \in Runners |-> "p1"],
             [r \in Runners |-> "devA"])

\* The locals of one run_sync_cycle; pulls counts its pull requests.
InitCtx ==
    [lock_version |-> 0, local_cursor |-> 0, pushed_count |-> 0,
     pulled_count |-> 0, has_root_key |-> TRUE, cursor_response |-> 0,
     storage_fault |-> "none",
     push_event_ids |-> <<>>, max_retry_count |-> 0, pulls |-> 0]

NoResult ==
    [status |-> "none", lock_version |-> 0, pushed_count |-> 0,
     pulled_count |-> 0, cursor |-> 0, needs_bootstrap |-> FALSE]

\* DeviceSyncRuntimeState::new, with the process-wide set of snapshot
\* uploads in flight; the cycle mutex is the variable mutex.  tasks are the
\* tasks spawned so far and background_task is the stored handle: the
\* position of a task in tasks, or NoTask.
NoTask == 0

\* SnapshotPolicyState::default; times are seconds
SnapshotPolicyState ==
    [last_uploaded_at |-> [present |-> FALSE, at |-> 0], last_uploaded_cursor |-> 0]

DeviceSyncRuntimeState ==
    [background_task |-> NoTask, tasks |-> <<>>,
     snapshot_policy |-> SnapshotPolicyState,
     snapshot_upload_cancelled |-> FALSE, in_flight |-> {}]

\* Everything on the side of the devices
InitLocal ==
    /\ db = [s \in Stores |-> EmptyStore]
    /\ pc = [r \in Runners |-> "idle"]
    /\ ctx = [r \in Runners |-> InitCtx]
    /\ result = [r \in Runners |-> NoResult]
    /\ mutex = [p \in Procs |-> NoRunner]
    /\ calls = [r \in Runners |-> 0]
    /\ lastCall = NoCall
    /\ replayed = <<>>
    /\ won = EmptyFn
    /\ runtime = DeviceSyncRuntimeState

InitCommon == InitLocal /\ relay = [log |-> <<>>]

---------------------------------------------------------------------------
(* Replay on one store *)

\* One call of apply_remote_event_lww on store A
ApplyCall(ev) ==
    LET r == apply_remote_event_lww(db["A"], ev)
    IN  /\ db' = [db EXCEPT !["A"] = r.conn]
        /\ lastCall' = [op |-> "apply", event_id |-> ev.event_id, ret |-> RetOf(r),
                        again |-> ev.event_id \in DOMAIN won /\ won[ev.event_id] = ev]
        /\ won' = IF r.ok /\ r.value THEN Put(won, ev.event_id, ev) ELSE won

\* Any of these events at any time, repeats included
\* The events of the redelivery runs: whole hours, three of the operations
RedeliveryEvents ==
    {ev \in ReplayEvents :
        /\ ev.client_timestamp.frac = 0
        /\ ev.client_timestamp.wall = MaxWall \/ ev.client_timestamp.zone = "+00:00"
        /\ ev.op \in {"create", "delete", "request"}}

ReplayApply ==
    \E ev \in RedeliveryEvents :
        /\ ApplyCall(ev)
        /\ UNCHANGED <<runtime, relay, pc, ctx, result, mutex, topo, calls, replayed>>

ReplayPrune ==
    \E seq_cutoff \in Seqs :
        /\ db' = [db EXCEPT !["A"] = prune_applied_events_up_to_seq(@, seq_cutoff)]
        /\ lastCall' = [NoCall EXCEPT !.op = "prune"]
        /\ UNCHANGED <<runtime, relay, pc, ctx, result, mutex, topo, calls, replayed, won>>

InitReplay == InitCommon /\ topo = StoreOnly("replay")

NextReplay == ReplayApply \/ ReplayPrune

SpecReplay == InitReplay /\ [][NextReplay]_vars

\* Events with distinct ids, each handed to the applier once, in any order;
\* the order is remembered.
SeqRange(q) == {q[i] : i \in 1..Len(q)}

\* The events the applier accepts
OrderEvents == {ev \in ReplayEvents : ev.op = "delete" \/ ~PayloadRejected(ev)}

OrderApply ==
    \E ev \in OrderEvents :
        /\ \A f \in SeqRange(replayed) : f.event_id # ev.event_id
        /\ ApplyCall(ev)
        /\ replayed' = Append(replayed, ev)
        /\ UNCHANGED <<runtime, relay, pc, ctx, result, mutex, topo, calls>>

InitOrder == InitCommon /\ topo = StoreOnly("order")

NextOrder == OrderApply

SpecOrder == InitOrder /\ [][NextOrder]_vars

---------------------------------------------------------------------------
(* What travels between a device and the relay *)

\* "<entity>.<op>.v1"
EventType(entity, op) == [entity |-> entity, op |-> op]

\* parse_event_operation: only the second part of the type is looked at
parse_event_operation(event_type) ==
    IF event_type.op \in Ops
    THEN [ok |-> TRUE, op |-> event_type.op]
    ELSE [ok |-> FALSE, op |-> ""]

\* A payload on the wire: a ciphertext of some text (JSON or not), or bytes
\* that are no ciphertext at all.
\* dek is the key version of the data-encryption key of a ciphertext.
WirePayload(kind, json, value) ==
    [kind |-> kind, json |-> json, value |-> value, dek |-> 1]

\* An encryption that hands the plaintext on when there is no root key.
encrypt_sync_payload_or_plain(payload, has_root_key, payload_key_version) ==
    [ok |-> TRUE,
     value |-> [WirePayload(IF has_root_key THEN "cipher" ELSE "plain", TRUE, payload)
                   EXCEPT !.dek = IF payload_key_version > 1
                                  THEN payload_key_version ELSE 1]]

encrypt_sync_payload(payload, has_root_key, payload_key_version) ==
    IF has_root_key
    THEN [ok |-> TRUE,
          value |-> [WirePayload("cipher", TRUE, payload)
                        EXCEPT !.dek = IF payload_key_version > 1
                                       THEN payload_key_version ELSE 1]]
    ELSE [ok |-> FALSE, value |-> WirePayload("garbage", FALSE, NotAnObject)]

decrypt_sync_payload(wire, has_root_key) ==
    IF has_root_key /\ wire.kind = "cipher"
    THEN [ok |-> TRUE, json |-> wire.json, value |-> wire.value]
    ELSE [ok |-> FALSE, json |-> FALSE, value |-> NotAnObject]

RelayEvent(event_id, device_id, entity, op, entity_id, client_timestamp, seq, payload) ==
    [event_id |-> event_id, device_id |-> device_id, entity |-> entity,
     event_type |-> EventType(entity, op), entity_id |-> entity_id,
     client_timestamp |-> client_timestamp, seq |-> seq, payload |-> payload]

\* The loop over pull_response.events: what is skipped, what ends the
\* cycle, and the events handed to the batch.
RECURSIVE DecodeEvents(_, _, _, _)
DecodeEvents(events, device_id, has_root_key, decoded) ==
    IF events = <<>>
    THEN [status |-> "ok", events |-> decoded]
    ELSE LET remote_event == Head(events)
             local_op == parse_event_operation(remote_event.event_type)
             plain == decrypt_sync_payload(remote_event.payload, has_root_key)
         IN  IF remote_event.device_id = device_id
             THEN DecodeEvents(Tail(events), device_id, has_root_key, decoded)
             ELSE IF remote_event.entity = "snapshot"
             THEN DecodeEvents(Tail(events), device_id, has_root_key, decoded)
             ELSE IF ~local_op.ok
             THEN [status |-> "replay_blocked", events |-> <<>>]
             ELSE IF ~plain.ok \/ ~plain.json
             THEN [status |-> "replay_error", events |-> <<>>]
             ELSE DecodeEvents(Tail(events), device_id, has_root_key,
                      Append(decoded,
                             RemoteEvent(remote_event.entity_id, local_op.op,
                                         remote_event.event_id,
                                         remote_event.client_timestamp,
                                         remote_event.seq, plain.value)))

---------------------------------------------------------------------------
(* run_sync_cycle, one step per request to the relay *)

PruneThreshold == 20000
PruneKeep == 10000
ReplayBlockedRetry == 21600

Returned(store, res) ==
    [store |-> store, pc |-> "idle", ctx |-> InitCtx, result |-> res]

Proceed(store, next_pc, c) ==
    [store |-> store, pc |-> next_pc, ctx |-> c, result |-> NoResult]

CycleResult(status, c, needs_bootstrap) ==
    [status |-> status, lock_version |-> c.lock_version,
     pushed_count |-> c.pushed_count, pulled_count |-> c.pulled_count,
     cursor |-> c.local_cursor, needs_bootstrap |-> needs_bootstrap]

\* CycleContext::fail; retry_secs = 0 stands for None
fail(store, c, status, retry_secs) ==
    Returned(mark_cycle_outcome(mark_engine_error(store), status, retry_secs),
             CycleResult(status, c, status = "stale_cursor"))

\* A storage call of the cycle that ends in `?`: Err(String) to the caller
StorageErr == [NoResult EXCEPT !.status = "Err"]

\* From taking the cycle mutex to the cursor request; the store may fail
\* when the lock is acquired, and later when the outbox is listed or marked.
BeginCycle(store, pre) ==
    LET c0 == [InitCtx EXCEPT !.local_cursor = get_cursor(store)]
        trusted == upsert_device_config(store, "trusted")
        lock == acquire_cycle_lock(trusted)
    IN  CASE pre \in {"no_identity", "no_device_id"} ->
                fail(store, c0, "config_error", 0)
          [] pre = "state_error" ->
                fail(store, c0, "state_error", 15)
          [] pre = "not_ready" ->
                Returned(mark_cycle_outcome(upsert_device_config(store, "untrusted"),
                                            "not_ready", 0),
                         CycleResult("not_ready", c0, FALSE))
          [] pre = "no_token" ->
                fail(trusted, c0, "auth_error", 30)
          [] pre = "lock_error" ->
                \* acquire_cycle_lock fails in the store: Err goes to the caller
                Returned(trusted, StorageErr)
          [] OTHER ->
                Proceed(lock.store, "cursor",
                        [c0 EXCEPT !.lock_version = lock.value,
                                   !.local_cursor = get_cursor(lock.store),
                                   !.has_root_key = (pre # "no_root_key"),
                                   !.storage_fault =
                                       IF pre \in {"list_error", "mark_error"}
                                       THEN pre ELSE "none"])

\* The stale check with <= in place of <
StaleCursor_le(local_cursor, response) ==
    response.has_gc /\ local_cursor <= response.gc_watermark

StaleCursor(local_cursor, response) ==
    response.has_gc /\ local_cursor < response.gc_watermark

MaxRetryCount(store, ids) ==
    LET counts == {store.sync_outbox[i].retry_count : i \in ids} \cup {0}
    IN  CHOOSE m \in counts : \A n \in counts : n <= m

\* The cursor response, the stale check and the preparation of the push
CheckCursor(store, c, response, elapsed) ==
    LET pending == list_pending_outbox(store, elapsed)
    IN  IF ~response.ok
        THEN fail(store, c, "cursor_error", 10)
        ELSE IF StaleCursor(c.local_cursor, response)
        THEN fail(store, c, "stale_cursor", 0)
        ELSE IF c.storage_fault = "list_error"
        THEN Returned(store, StorageErr)
        ELSE IF \E i \in SeqRange(pending) :
                    ~encrypt_sync_payload(
                         store.sync_outbox[i].payload, c.has_root_key,
                         store.sync_outbox[i].payload_key_version).ok
        THEN fail(store, c, "push_prepare_error", 15)
        ELSE Proceed(store, IF pending = <<>> THEN "verify" ELSE "push",
                     [c EXCEPT !.cursor_response = response.cursor,
                               !.push_event_ids = pending,
                               !.max_retry_count =
                                   MaxRetryCount(store, SeqRange(pending))])

\* The answer to the push request
HandlePush(store, c, response) ==
    LET ids == SeqRange(c.push_event_ids)
        backoff == backoff_seconds(c.max_retry_count)
        sent_ids == response.accepted \cup response.duplicate
    IN  CASE response.kind = "ok" /\ c.storage_fault = "mark_error" ->
                Returned(store, StorageErr)
          [] response.kind = "ok" ->
                Proceed(mark_push_completed(mark_outbox_sent(store, sent_ids)),
                        "verify",
                        [c EXCEPT !.pushed_count =
                            Cardinality(response.accepted)
                              + Cardinality(response.duplicate)])
          [] response.kind = "key_version_mismatch" ->
                fail(mark_outbox_dead(store, ids, "key_version_mismatch"),
                     c, "key_version_mismatch", 0)
          [] response.kind = "reauth_required" ->
                fail(schedule_outbox_retry(store, ids, 30, "reauth_required"),
                     c, "auth_error", 30)
          [] response.kind = "retryable" ->
                fail(schedule_outbox_retry(store, ids, backoff, "retryable"),
                     c, "push_error", backoff)
          [] OTHER ->
                fail(mark_outbox_dead(store, ids, "permanent"),
                     c, "push_error", backoff)

\* Pruning of the applied log and the ok outcome
FinishOk(store, c) ==
    LET pruned == IF c.local_cursor > PruneThreshold
                  THEN prune_applied_events_up_to_seq(store, c.local_cursor - PruneKeep)
                  ELSE store
    IN  Returned(mark_cycle_outcome(pruned, "ok", 0), CycleResult("ok", c, FALSE))

\* The lock check between push and pull
VerifyLock(store, c) ==
    IF ~verify_cycle_lock(store, c.lock_version)
    THEN Returned(mark_cycle_outcome(store, "preempted", 0),
                  CycleResult("preempted", c, FALSE))
    ELSE IF c.cursor_response > c.local_cursor
         THEN Proceed(store, "pull", c)
         ELSE FinishOk(store, c)

\* One turn of the pull loop: the response, the replay, the cursor.  The
\* decoded events and the result of the batch are each computed once.
HandlePull(store, c, device_id, response) ==
    LET Outcome(decoded, batch) ==
            LET c1 == [c EXCEPT !.pulled_count = @ + batch.value,
                                !.local_cursor = response.next_cursor,
                                !.pulls = IF @ < MaxPulls THEN @ + 1 ELSE @]
                advanced == set_cursor(batch.conn, response.next_cursor)
            IN  IF response.kind = "reauth_required"
                THEN fail(store, c, "auth_error", 30)
                ELSE IF response.kind # "ok"
                THEN fail(store, c, "pull_error", 10)
                ELSE IF StaleCursor(c.local_cursor, response)
                THEN fail(store, c, "stale_cursor", 0)
                ELSE IF decoded.status = "replay_blocked"
                THEN fail(store, c, "replay_blocked", ReplayBlockedRetry)
                ELSE IF decoded.status # "ok"
                THEN fail(store, c, "replay_error", 10)
                ELSE IF ~batch.ok
                THEN fail(batch.conn, c, "replay_error", 10)
                ELSE IF response.has_more
                THEN Proceed(advanced, "pull", c1)
                ELSE FinishOk(mark_pull_completed(advanced), c1)
        Decoded == {DecodeEvents(response.events, device_id, c.has_root_key, <<>>)}
        Batch(decoded) == {apply_remote_events_lww_batch(store, decoded.events)}
    IN  CHOOSE out \in UNION {{Outcome(d, b) : b \in Batch(d)} : d \in Decoded} : TRUE

---------------------------------------------------------------------------
(* The relay *)

\* The push request of a cycle: the pending rows, encrypted
PushRequest(store, c, device_id) ==
    [k \in 1..Len(c.push_event_ids) |->
        LET row == store.sync_outbox[c.push_event_ids[k]]
        IN  RelayEvent(c.push_event_ids[k], device_id, "goal", row.op,
                       row.entity_id, row.client_timestamp, 0,
                       encrypt_sync_payload(row.payload, c.has_root_key,
                                            row.payload_key_version).value)]

\* A relay that keeps its log: new events get the next seq, known ids are
\* reported as duplicates.
RECURSIVE RelayStore(_, _)
RelayStore(log, events) ==
    IF events = <<>> THEN log
    ELSE IF \E k \in 1..Len(log) : log[k].event_id = Head(events).event_id
         THEN RelayStore(log, Tail(events))
         ELSE RelayStore(Append(log, [Head(events) EXCEPT !.seq = Len(log) + 1]),
                         Tail(events))

LogIds(log) == {log[k].event_id : k \in 1..Len(log)}

CursorResponse(ok, cursor, has_gc, gc_watermark) ==
    [ok |-> ok, cursor |-> cursor, has_gc |-> has_gc, gc_watermark |-> gc_watermark]

PushResponse(kind, accepted, duplicate) ==
    [kind |-> kind, accepted |-> accepted, duplicate |-> duplicate]

PullResponse(kind, events, next_cursor, has_more, has_gc, gc_watermark) ==
    [kind |-> kind, events |-> events, next_cursor |-> next_cursor,
     has_more |-> has_more, has_gc |-> has_gc, gc_watermark |-> gc_watermark]

\* Events a relay that is not trusted may put into a pull response: the
\* event with seq n has id n.
Hour(wall) == [wall |-> wall, frac |-> 0, zone |-> "+00:00"]

Cipher(payload) == WirePayload("cipher", TRUE, payload)

GoodEvent(n) ==
    RelayEvent(n, "other", "goal", "create", "g1", Hour(0), n,
               Cipher(Obj({"id", "amount"}, "g1", "100")))

AnyEvents(n, device_id) ==
    {GoodEvent(n),
     [GoodEvent(n) EXCEPT !.payload = Cipher(Obj({"nonexistent_column"}, "g1", Null))],
     [GoodEvent(n) EXCEPT !.device_id = device_id],
     [GoodEvent(n) EXCEPT !.entity = "snapshot"],
     [GoodEvent(n) EXCEPT !.event_type = EventType("goal", "merge")],
     [GoodEvent(n) EXCEPT !.event_type = EventType("invoice", "create")],
     [GoodEvent(n) EXCEPT !.payload = WirePayload("garbage", FALSE, NotAnObject)],
     [GoodEvent(n) EXCEPT !.payload = WirePayload("cipher", FALSE, NotAnObject)]}

AnyBatches(device_id) ==
    {<<>>}
    \cup {<<GoodEvent(1)>>}
    \cup {<<GoodEvent(1), e>> : e \in AnyEvents(MaxSeq, device_id)}

Preconditions ==
    IF topo.name = "process"
    THEN {"ok", "no_identity", "no_device_id", "state_error", "not_ready",
          "no_token", "no_root_key"}
    ELSE IF topo.name = "encrypt" THEN {"ok", "no_root_key"}
    ELSE IF topo.name = "storage"
    THEN {"ok", "lock_error", "list_error", "mark_error"}
    ELSE IF topo.name = "lock" THEN {"ok", "state_error", "no_token"}
    ELSE {"ok"}

CursorResponses ==
    CASE topo.name = "process" ->
            {CursorResponse(FALSE, 0, FALSE, 0)}
            \cup {CursorResponse(TRUE, n, FALSE, 0) : n \in 0..MaxSeq}
            \cup {CursorResponse(TRUE, MaxSeq, TRUE, g) : g \in 0..MaxSeq}
      [] topo.name = "shared" ->
            {CursorResponse(TRUE, MaxSeq, FALSE, 0)}
      [] topo.name = "bootstrap" ->
            {CursorResponse(TRUE, Len(relay.log), relay.gc_watermark > 0,
                            relay.gc_watermark)}
      [] topo.name = "outbox" ->
            {CursorResponse(TRUE, 0, FALSE, 0)}
      [] topo.name \in {"lock", "pull"} ->
            {CursorResponse(TRUE, n, FALSE, 0) : n \in 0..1}
      [] OTHER ->
            {CursorResponse(TRUE, Len(relay.log), FALSE, 0)}

\* DeviceSyncError::retry_class
retry_class(err) ==
    CASE err.variant = "api" ->
            IF err.status \in {401, 403} THEN "reauth_required"
            ELSE IF err.status \in {408, 409, 423, 425, 429} THEN "retryable"
            ELSE IF err.status \in 500..599 THEN "retryable"
            ELSE "permanent"
      [] err.variant = "http" -> "retryable"
      [] err.variant \in {"json", "invalid_request"} -> "permanent"
      [] OTHER -> "reauth_required"

\* Errors of a push request; key_version_mismatch says that the message
\* contains KEY_VERSION_MISMATCH.
PushErrors ==
    [variant : {"api"}, status : {400, 401, 403, 404, 408, 409, 422, 423, 425,
                                  429, 499, 500, 503, 599, 600},
     key_version_mismatch : {FALSE}]
    \cup {[variant |-> "api", status |-> 409, key_version_mismatch |-> TRUE]}
    \cup [variant : {"http", "json", "invalid_request", "auth"}, status : {0},
          key_version_mismatch : {FALSE}]

\* The ids a relay may list in its answer to a push: it is not bound to the
\* batch of the request, so any id of the device's outbox can be among them.
ListedIds(store) == DOMAIN store.sync_outbox

PushResponses(r) ==
    LET ids == SeqRange(ctx[r].push_event_ids)
    IN  CASE topo.name = "process" ->
                {PushResponse("ok", a, {}) : a \in SUBSET ids}
                \cup {PushResponse(k, {}, {}) :
                        k \in {"key_version_mismatch", "reauth_required",
                               "retryable", "permanent"}}
          [] topo.name = "shared" ->
                {PushResponse("ok", ids, {})}
          [] topo.name = "listed" ->
                {PushResponse("ok", a, d) :
                    a \in SUBSET ListedIds(db[topo.store[r]]), d \in {{}, ids}}
                \cup {PushResponse(k, {}, {}) : k \in {"retryable", "permanent"}}
          [] topo.name = "outbox" ->
                {PushResponse("ok", a, d) : a \in SUBSET ids, d \in SUBSET ids}
                \cup {PushResponse(IF err.key_version_mismatch
                                   THEN "key_version_mismatch"
                                   ELSE retry_class(err), {}, {}) :
                        err \in PushErrors}
          [] OTHER ->
                {PushResponse("ok", ids \ LogIds(relay.log), ids \cap LogIds(relay.log))}

PullResponses(r) ==
    LET since == ctx[r].local_cursor
        more == IF ctx[r].pulls + 1 < MaxPulls THEN BOOLEAN ELSE {FALSE}
    IN  CASE topo.name = "process" ->
                {PullResponse(k, <<>>, 0, FALSE, FALSE, 0) :
                    k \in {"reauth_required", "retryable"}}
                \cup {PullResponse("ok", <<>>, 0, FALSE, TRUE, g) : g \in 1..MaxSeq}
                \cup {PullResponse("ok", b, n, m, FALSE, 0) :
                        b \in AnyBatches(topo.device[r]), n \in 0..MaxSeq, m \in more}
          [] topo.name = "pull" ->
                \* has_more and next_cursor are the relay's to choose, in
                \* every response
                {PullResponse("retryable", <<>>, 0, FALSE, FALSE, 0)}
                \cup {PullResponse("ok", b, n, m, FALSE, 0) :
                        b \in {<<>>, <<GoodEvent(1)>>}, n \in 0..MaxSeq,
                        m \in BOOLEAN}
          [] topo.name = "lock" ->
                {PullResponse("retryable", <<>>, 0, FALSE, FALSE, 0),
                 PullResponse("ok", <<>>, 1, FALSE, FALSE, 0)}
          [] topo.name = "shared" ->
                {PullResponse("ok", b, n, m, FALSE, 0) :
                    b \in {<<>>, <<GoodEvent(1)>>}, n \in Seqs, m \in more}
          [] topo.name = "bootstrap" ->
                {PullResponse("ok",
                              SubSeq(relay.log, since + 1, Len(relay.log)),
                              Len(relay.log), FALSE, relay.gc_watermark > 0,
                              relay.gc_watermark)}
          [] OTHER ->
                {PullResponse("ok",
                              SubSeq(relay.log, since + 1, Len(relay.log)),
                              Len(relay.log), FALSE, FALSE, 0)}

---------------------------------------------------------------------------
(* The callers of run_sync_cycle and the local writes *)

EngineCall(op, r, response) == [op |-> op, runner |-> r, response |-> response]

StoreOf(r) == db[topo.store[r]]

InCycle(r) == pc[r] \notin {"idle", "waiting"}

CyclesStarted == calls["r1"] + calls["r2"]

\* A cycle mutex that nobody waits for
cycle_mutex_ignored(r) == TRUE

\* runtime.cycle_mutex.lock().await returns when no cycle of the process holds it
cycle_mutex_free(r) == mutex[topo.proc[r]] = NoRunner

\* What a step of a cycle leaves behind; the mutex guard is dropped on return
Commit(r, out) ==
    /\ db' = [db EXCEPT ![topo.store[r]] = out.store]
    /\ pc' = [pc EXCEPT ![r] = out.pc]
    /\ ctx' = [ctx EXCEPT ![r] = out.ctx]
    /\ result' = [result EXCEPT ![r] = IF out.pc = "idle" THEN out.result ELSE @]
    /\ mutex' = [mutex EXCEPT ![topo.proc[r]] =
                    IF out.pc = "idle" THEN NoRunner ELSE r]

\* The background loop or a manual trigger calls run_sync_cycle
Call(r) ==
    /\ pc[r] = "idle"
    /\ CyclesStarted < (IF topo.name \in {"outbox", "listed", "lock"}
                       THEN MaxPushCycles ELSE MaxCycles)
    /\ pc' = [pc EXCEPT ![r] = "waiting"]
    /\ calls' = [calls EXCEPT ![r] = @ + 1]
    /\ lastCall' = EngineCall("run_sync_cycle", r, 0)
    /\ UNCHANGED <<runtime, db, relay, ctx, result, mutex, topo, replayed, won>>

\* The caller gets the mutex and runs up to the cursor request
Begin(r) ==
    /\ pc[r] = "waiting"
    /\ cycle_mutex_free(r)
    /\ \E pre \in Preconditions :
          /\ Commit(r, BeginCycle(StoreOf(r), pre))
          /\ lastCall' = EngineCall("begin", r, pre)
    /\ UNCHANGED <<runtime, relay, topo, calls, replayed, won>>

GetEventsCursor(r) ==
    /\ pc[r] = "cursor"
    /\ \E response \in CursorResponses, elapsed \in BOOLEAN :
          /\ Commit(r, CheckCursor(StoreOf(r), ctx[r], response, elapsed))
          /\ lastCall' = EngineCall("get_events_cursor", r, response)
    /\ UNCHANGED <<runtime, relay, topo, calls, replayed, won>>

PushEvents(r) ==
    /\ pc[r] = "push"
    /\ \E response \in PushResponses(r) :
          /\ Commit(r, HandlePush(StoreOf(r), ctx[r], response))
          /\ lastCall' = EngineCall("push_events", r, response)
    /\ relay' = IF topo.name \in {"devices", "abort"}
                THEN [relay EXCEPT !.log =
                        RelayStore(@, PushRequest(StoreOf(r), ctx[r], topo.device[r]))]
                ELSE relay
    /\ UNCHANGED <<runtime, topo, calls, replayed, won>>

VerifyCycleLock(r) ==
    /\ pc[r] = "verify"
    /\ Commit(r, VerifyLock(StoreOf(r), ctx[r]))
    /\ lastCall' = EngineCall("verify_cycle_lock", r, 0)
    /\ UNCHANGED <<runtime, relay, topo, calls, replayed, won>>

PullEvents(r) ==
    /\ pc[r] = "pull"
    /\ \E response \in PullResponses(r) :
          \E out \in {HandlePull(StoreOf(r), ctx[r], topo.device[r], response)} :
              /\ Commit(r, out)
              /\ lastCall' = EngineCall("pull_events", r, response)
    /\ UNCHANGED <<runtime, relay, topo, calls, replayed, won>>

\* Ids of the events written locally; a relay that answers anything uses
\* the ids up to MaxSeq for its own events.
LocalIds ==
    IF topo.name \in {"devices", "outbox", "encrypt", "storage", "listed"}
    THEN EventIds ELSE EventIds \ Seqs

UsedIds == UNION {DOMAIN db[s].sync_outbox : s \in Stores}

Untraced(entity_id) ==
    \A s \in Stores :
        /\ entity_id \notin DOMAIN db[s].goals
        /\ entity_id \notin DOMAIN db[s].sync_entity_metadata
        /\ \A i \in DOMAIN db[s].sync_outbox : db[s].sync_outbox[i].entity_id # entity_id

\* insert_new_goal: the row under a new id and its create event
insert_new_goal(conn, event_id, entity_id, amount, now) ==
    write_outbox_event(
        [conn EXCEPT !.goals = Upsert(@, entity_id, [amount |-> amount])],
        event_id, entity_id, "create", now, Obj({"id", "amount"}, entity_id, amount))

\* update_goal: the row must exist; the event carries the whole row
update_goal(conn, event_id, entity_id, amount, now) ==
    IF entity_id \notin DOMAIN conn.goals
    THEN conn
    ELSE write_outbox_event(
            [conn EXCEPT !.goals = Upsert(@, entity_id, [amount |-> amount])],
            event_id, entity_id, "update", now, Obj({"id", "amount"}, entity_id, amount))

\* delete_goal: an event only when a row was deleted
delete_goal(conn, event_id, entity_id, now) ==
    IF entity_id \notin DOMAIN conn.goals
    THEN conn
    ELSE write_outbox_event([conn EXCEPT !.goals = DeleteRow(@, entity_id)],
                            event_id, entity_id, "delete", now,
                            Obj({"id"}, entity_id, Null))

\* What the user edits and what the device's clock shows; where the relay
\* answers anything one amount and one hour are enough.
LocalWrites ==
    IF topo.name = "devices"
    THEN [op : {"create", "update", "delete"}, amount : Values, wall : 0..MaxWall]
    ELSE [op : {"create", "update", "delete"}, amount : {"200"}, wall : {MaxWall}]

\* The clock of a device does not run backwards
ClockAllows(s, wall) ==
    \A i \in DOMAIN db[s].sync_outbox :
        db[s].sync_outbox[i].client_timestamp.wall <= wall

LocalWrite(s) ==
    /\ \E r \in Runners : topo.store[r] = s
    /\ LocalIds \ UsedIds # {}
    /\ \E entity_id \in EntityIds, w \in LocalWrites :
          LET event_id == CHOOSE i \in LocalIds \ UsedIds :
                              \A j \in LocalIds \ UsedIds : i <= j
              now == Hour(w.wall)
              op == w.op
              amount == w.amount
          IN  /\ ClockAllows(s, w.wall)
              /\ IF op = "create" THEN Untraced(entity_id)
                 ELSE entity_id \in DOMAIN db[s].goals
              /\ db' = [db EXCEPT ![s] =
                          CASE op = "create" ->
                                  insert_new_goal(@, event_id, entity_id, amount, now)
                            [] op = "update" ->
                                  update_goal(@, event_id, entity_id, amount, now)
                            [] OTHER ->
                                  delete_goal(@, event_id, entity_id, now)]
    /\ lastCall' = EngineCall("local_write", NoRunner, 0)
    /\ UNCHANGED <<runtime, relay, pc, ctx, result, mutex, topo, calls, replayed, won>>

\* A whole cycle of one device against the relay that keeps its log, with
\* no other device talking to the relay meanwhile.
RunCycle(store, log, device_id) ==
    LET begun == BeginCycle(store, "ok")
        checked == CheckCursor(begun.store, begun.ctx,
                               CursorResponse(TRUE, Len(log), FALSE, 0), TRUE)
        ids == SeqRange(checked.ctx.push_event_ids)
        pushed == IF checked.pc = "push"
                  THEN HandlePush(checked.store, checked.ctx,
                                  PushResponse("ok", ids \ LogIds(log),
                                               ids \cap LogIds(log)))
                  ELSE checked
        log1 == IF checked.pc = "push"
                THEN RelayStore(log, PushRequest(checked.store, checked.ctx, device_id))
                ELSE log
        verified == IF pushed.pc = "verify"
                    THEN VerifyLock(pushed.store, pushed.ctx)
                    ELSE pushed
        pulled == IF verified.pc = "pull"
                  THEN HandlePull(verified.store, verified.ctx, device_id,
                                  PullResponse("ok",
                                      SubSeq(log1, verified.ctx.local_cursor + 1,
                                             Len(log1)),
                                      Len(log1), FALSE, FALSE, 0))
                  ELSE verified
    IN  [out |-> pulled, log |-> log1]

SyncCycle(r) ==
    /\ pc[r] = "idle"
    /\ CyclesStarted < MaxDeviceCycles
    /\ LET done == RunCycle(StoreOf(r), relay.log, topo.device[r])
       IN  /\ Commit(r, done.out)
           /\ relay' = [relay EXCEPT !.log = done.log]
    /\ calls' = [calls EXCEPT ![r] = @ + 1]
    /\ lastCall' = EngineCall("run_sync_cycle", r, 0)
    /\ UNCHANGED <<runtime, topo, replayed, won>>

NextEngine ==
    \/ \E r \in Runners : Call(r)
    \/ \E r \in Runners : Begin(r)
    \/ \E r \in Runners : GetEventsCursor(r)
    \/ \E r \in Runners : PushEvents(r)
    \/ \E r \in Runners : VerifyCycleLock(r)
    \/ \E r \in Runners : PullEvents(r)
    \/ \E s \in Stores : LocalWrite(s)

\* One process against a relay that may answer anything
Init == InitCommon /\ topo = OneProcess

Next == NextEngine

Spec == Init /\ [][Next]_vars

\* Two devices against a relay that keeps what it is sent
InitDevices == InitCommon /\ topo = TwoDevices

NextDevices ==
    \/ \E r \in Runners : SyncCycle(r)
    \/ \E s \in Stores : LocalWrite(s)

SpecDevices == InitDevices /\ [][NextDevices]_vars

\* Two processes on one database file
InitSharedDb == InitCommon /\ topo = SharedDatabase

NextSharedDb == NextEngine

SpecSharedDb == InitSharedDb /\ [][NextSharedDb]_vars

---------------------------------------------------------------------------
(* Snapshots: the image a device downloads, the restore, the bootstrap *)

\* The tables of the catalog that the model carries
APP_SYNC_TABLES == {"goals"}

validate_sync_table(table) == table \in APP_SYNC_TABLES

\* A downloaded file: an SQLite image or not, with the columns and the rows
\* (by primary key) of each table it holds.
SnapshotImage(sqlite, tables) == [sqlite |-> sqlite, tables |-> tables]

\* load_table_columns: PRAGMA table_xinfo gives no row for a table the
\* database does not have
load_table_columns(tables, table) ==
    IF table \in DOMAIN tables THEN tables[table].columns ELSE {}

\* A reset that leaves the applied-event log as it is
ResetControlPlane_keep_applied(conn) ==
    [conn EXCEPT !.sync_outbox = EmptyFn, !.sync_entity_metadata = EmptyFn]

\* "Bootstrap reset": the deletes that open the restore
ResetControlPlane(conn) ==
    [conn EXCEPT !.sync_outbox = EmptyFn,
                 !.sync_entity_metadata = EmptyFn,
                 !.sync_applied_events = EmptyFn]

\* The closure of restore_snapshot_tables_from_file; an empty list of tables
\* stands for the whole catalog.  Each table is emptied and refilled with
\* INSERT INTO t (common) SELECT common FROM snapshot.t.
RestoreJob(conn, image, tables, cursor_value) ==
    LET table_set == IF tables = {} THEN APP_SYNC_TABLES ELSE tables
        reset == ResetControlPlane(conn)
        common_columns(t) == TableColumns \cap load_table_columns(image.tables, t)
        source == image.tables["goals"]
        copied == [reset EXCEPT !.goals =
                      IF "goals" \in table_set
                      THEN [k \in DOMAIN source.rows |->
                              [c \in DataColumns |->
                                  IF c \in common_columns("goals")
                                  THEN source.rows[k][c] ELSE Null]]
                      ELSE @]
        done == [copied EXCEPT
                    !.sync_cursor = [present |-> TRUE, cursor |-> cursor_value],
                    !.sync_device_config =
                        [present |-> TRUE, trust_state |-> "trusted",
                         last_bootstrap_at |-> TRUE,
                         key_version |-> IdentityKeyVersion],
                    !.sync_engine_state =
                        IF @.present
                        THEN [@ EXCEPT !.last_pull_at = TRUE, !.last_error = FALSE,
                                       !.consecutive_failures = 0,
                                       !.next_retry_in = 0,
                                       !.last_cycle_status = "ok"]
                        ELSE EngineRow(0, FALSE, TRUE, FALSE, 0, 0, "ok")]
    IN  IF \E t \in table_set : ~validate_sync_table(t)
        THEN Err(conn)
        ELSE IF ~image.sqlite
        THEN Err(conn)
        ELSE IF \E t \in table_set : common_columns(t) = {}
        THEN Err(reset)
        ELSE Ok(TRUE, done)

\* The restore without the transaction: what the job wrote stays when it fails
restore_snapshot_tables_from_file_partial(store, image, tables, cursor_value) ==
    RestoreJob(store, image, tables, cursor_value)

restore_snapshot_tables_from_file(store, image, tables, cursor_value) ==
    WriterExec(store, RestoreJob(store, image, tables, cursor_value))

needs_bootstrap(store) ==
    ~store.sync_device_config.present \/ ~store.sync_device_config.last_bootstrap_at

mark_bootstrap_complete(store) ==
    [store EXCEPT !.sync_device_config =
        [present |-> TRUE, trust_state |-> "trusted", last_bootstrap_at |-> TRUE,
         key_version |-> IdentityKeyVersion]]

\* What the relay answers to "latest snapshot": none, or its metadata and
\* the blob that a download returns.
LatestSnapshot(present, oplog_seq, image) ==
    [present |-> present, oplog_seq |-> oplog_seq, image |-> image]

\* sync_bootstrap_snapshot_if_needed for a device in state Ready, from the
\* answer of the relay to "latest snapshot" and the blob it lets download
sync_bootstrap_snapshot_if_needed(store, latest) ==
    LET trusted == upsert_device_config(store, "trusted")
        restore_result ==
            restore_snapshot_tables_from_file(trusted, latest.image, {},
                                              latest.oplog_seq)
    IN  IF ~needs_bootstrap(trusted)
        THEN [status |-> "skipped", store |-> trusted]
        ELSE IF ~latest.present
        THEN [status |-> "skipped", store |-> mark_bootstrap_complete(trusted)]
        ELSE IF ~restore_result.ok
        THEN [status |-> "error", store |-> restore_result.conn]
        ELSE [status |-> "applied", store |-> restore_result.conn]

---------------------------------------------------------------------------
(* A device, the background loop, the bootstrap command and a relay that   *)
(* collects its log once a snapshot covers it                              *)

\* Another device pushes an event
RelayReceives ==
    /\ Len(relay.log) < MaxSeq
    /\ \E amount \in Values :
          LET n == Len(relay.log) + 1
          IN  relay' = [relay EXCEPT !.log =
                  Append(@, RelayEvent(n, "other", "goal",
                                       IF n = 1 THEN "create" ELSE "update", "g1",
                                       Hour(0), n,
                                       Cipher(Obj({"id", "amount"}, "g1", amount))))]
    /\ lastCall' = EngineCall("relay_receives", NoRunner, 0)
    /\ UNCHANGED <<runtime, db, pc, ctx, result, mutex, topo, calls, replayed, won>>

\* The other device, which has replayed the whole log, uploads a snapshot
RelaySnapshot ==
    /\ ~relay.snapshot.present \/ relay.snapshot.oplog_seq < Len(relay.log)
    /\ LET rows == apply_remote_events_lww_batch(
                       EmptyStore,
                       DecodeEvents(relay.log, "none", TRUE, <<>>).events).conn.goals
       IN  relay' = [relay EXCEPT !.snapshot =
              LatestSnapshot(TRUE, Len(relay.log),
                  SnapshotImage(TRUE,
                      [goals |-> [columns |-> TableColumns, rows |-> rows]]))]
    /\ lastCall' = EngineCall("relay_snapshot", NoRunner, 0)
    /\ UNCHANGED <<runtime, db, pc, ctx, result, mutex, topo, calls, replayed, won>>

\* The relay drops events that its latest snapshot covers
RelayGc ==
    /\ relay.snapshot.present
    /\ \E g \in 1..MaxSeq :
          /\ relay.gc_watermark < g
          /\ g <= relay.snapshot.oplog_seq
          /\ relay' = [relay EXCEPT !.gc_watermark = g]
    /\ lastCall' = EngineCall("relay_gc", NoRunner, 0)
    /\ UNCHANGED <<runtime, db, pc, ctx, result, mutex, topo, calls, replayed, won>>

\* The background loop calls run_sync_cycle again.  lock_version and
\* consecutive_failures only grow, and with one process on the database
\* neither is read between two cycles: the loop that never ends is followed
\* with both folded to "none" and "some".
LoopCall(r) ==
    /\ pc[r] = "idle"
    /\ pc' = [pc EXCEPT ![r] = "waiting"]
    /\ db' = [db EXCEPT ![topo.store[r]].sync_engine_state =
                IF @.present
                THEN [@ EXCEPT !.lock_version = 1,
                               !.consecutive_failures = IF @ > 0 THEN 1 ELSE 0]
                ELSE @]
    /\ lastCall' = EngineCall("run_sync_cycle", r, 0)
    /\ UNCHANGED <<runtime, relay, ctx, result, mutex, topo, calls, replayed, won>>

\* The command device_sync_bootstrap_snapshot_if_needed; it does not take
\* the cycle mutex.
BootstrapIfNeeded(r) ==
    /\ LET out == sync_bootstrap_snapshot_if_needed(StoreOf(r), relay.snapshot)
       IN  /\ db' = [db EXCEPT ![topo.store[r]] = out.store]
           /\ lastCall' = EngineCall("bootstrap", r, out.status)
    /\ UNCHANGED <<runtime, relay, pc, ctx, result, mutex, topo, calls, replayed, won>>

InitBootstrap ==
    /\ InitLocal
    /\ relay = [log |-> <<>>, gc_watermark |-> 0,
                snapshot |-> LatestSnapshot(FALSE, 0, SnapshotImage(FALSE, EmptyFn))]
    /\ topo = StoreOnly("bootstrap")

NextBootstrap ==
    \/ RelayReceives
    \/ RelaySnapshot
    \/ RelayGc
    \/ LoopCall("r1")
    \/ Begin("r1")
    \/ GetEventsCursor("r1")
    \/ VerifyCycleLock("r1")
    \/ PullEvents("r1")
    \/ BootstrapIfNeeded("r1")

SpecBootstrap == InitBootstrap /\ [][NextBootstrap]_vars

\* The background loop never stops calling run_sync_cycle and every request
\* of a cycle is answered; the bootstrap command is called again and again.
SpecBootstrapLive ==
    /\ SpecBootstrap
    /\ WF_vars(LoopCall("r1"))
    /\ WF_vars(Begin("r1"))
    /\ WF_vars(GetEventsCursor("r1"))
    /\ WF_vars(VerifyCycleLock("r1"))
    /\ WF_vars(PullEvents("r1"))
    /\ WF_vars(BootstrapIfNeeded("r1"))

---------------------------------------------------------------------------
(* One device whose repository writes may fail, its outbox and the push    *)

\* The closure a goal repository hands to the writer.  fault names the
\* statement that fails: the change of the row or the insert into the
\* outbox; configured is is_connect_configured().  The value says whether a
\* row was affected.
GoalWriteJob(conn, op, event_id, entity_id, amount, now, configured, fault) ==
    LET full == CASE op = "create" ->
                        insert_new_goal(conn, event_id, entity_id, amount, now)
                  [] op = "update" ->
                        update_goal(conn, event_id, entity_id, amount, now)
                  [] OTHER ->
                        delete_goal(conn, event_id, entity_id, now)
        row_only == [conn EXCEPT !.goals = full.goals]
        missing == op # "create" /\ entity_id \notin DOMAIN conn.goals
    IN  IF fault = "row" THEN Err(conn)
        ELSE IF missing THEN (IF op = "update" THEN Err(conn) ELSE Ok(FALSE, conn))
        ELSE IF ~configured THEN Ok(TRUE, row_only)
        ELSE IF fault = "outbox" THEN Err(row_only)
        ELSE Ok(TRUE, full)

\* The statements of the closure outside a transaction
goal_write_partial(store, op, event_id, entity_id, amount, now, configured, fault) ==
    GoalWriteJob(store, op, event_id, entity_id, amount, now, configured, fault)

\* insert_new_goal, update_goal, delete_goal: self.writer.exec(closure)
goal_write(store, op, event_id, entity_id, amount, now, configured, fault) ==
    WriterExec(store,
               GoalWriteJob(store, op, event_id, entity_id, amount, now,
                            configured, fault))

RepositoryWrite(s) ==
    /\ LocalIds \ UsedIds # {}
    /\ \E entity_id \in EntityIds, w \in LocalWrites, configured \in BOOLEAN,
          fault \in {"none", "row", "outbox"} :
          LET event_id == CHOOSE i \in LocalIds \ UsedIds :
                              \A j \in LocalIds \ UsedIds : i <= j
              out == goal_write(db[s], w.op, event_id, entity_id, w.amount,
                                Hour(w.wall), configured, fault)
          IN  /\ ClockAllows(s, w.wall)
              /\ w.op = "create" => Untraced(entity_id)
              /\ db' = [db EXCEPT ![s] = out.conn]
              /\ lastCall' = EngineCall("repository_write", NoRunner,
                                 [op |-> w.op, entity_id |-> entity_id,
                                  event_id |-> event_id, configured |-> configured,
                                  fault |-> fault, ok |-> out.ok,
                                  affected |-> out.value])
    /\ UNCHANGED <<runtime, relay, pc, ctx, result, mutex, topo, calls, replayed, won>>

InitOutbox == InitCommon /\ topo = StoreOnly("outbox")

NextOutbox ==
    \/ RepositoryWrite("A")
    \/ Call("r1")
    \/ Begin("r1")
    \/ GetEventsCursor("r1")
    \/ PushEvents("r1")
    \/ VerifyCycleLock("r1")

SpecOutbox == InitOutbox /\ [][NextOutbox]_vars

---------------------------------------------------------------------------
(* A store with local writes and replayed events that snapshots are        *)
(* restored into                                                           *)

\* Files handed to the restore: not a database, a database without the
\* table, and images of the table with the same columns, fewer, more, or
\* none in common.  An image made by an export has the key column whenever
\* it has any column of the table.
SnapshotImages ==
    IF topo.name = "lock"
    THEN {SnapshotImage(FALSE, EmptyFn),
          SnapshotImage(TRUE, [goals |-> [columns |-> TableColumns, rows |-> EmptyFn]])}
    ELSE
    {SnapshotImage(FALSE, EmptyFn), SnapshotImage(TRUE, EmptyFn)}
    \cup {SnapshotImage(TRUE, [goals |-> [columns |-> columns, rows |-> rows]]) :
            columns \in {TableColumns, {"id"}, TableColumns \cup {"legacy"}, {"legacy"}},
            rows \in {EmptyFn} \cup {[k \in {"g1"} |-> [amount |-> v]] : v \in Values}}

SnapshotRestore(s) ==
    /\ \E image \in SnapshotImages,
          tables \in (IF topo.name = "lock" THEN {{}}
                      ELSE {{}, {"goals"}, {"goals", "quotes"}}),
          cursor_value \in (IF topo.name = "lock" THEN {0} ELSE 0..MaxSeq) :
          LET out == restore_snapshot_tables_from_file(db[s], image, tables,
                                                       cursor_value)
          IN  /\ db' = [db EXCEPT ![s] = out.conn]
              /\ lastCall' = EngineCall("restore", NoRunner,
                                 [image |-> image, tables |-> tables,
                                  cursor_value |-> cursor_value, ok |-> out.ok])
    /\ UNCHANGED <<runtime, relay, pc, ctx, result, mutex, topo, calls, replayed, won>>

\* Events of another device are replayed on the store: a create, then a
\* delete
RestoreApply ==
    \E ev \in {RemoteEvent("g1", "create", 1, Hour(0), 1,
                            Obj({"id", "amount"}, "g1", "100")),
                RemoteEvent("g1", "delete", 2, Hour(MaxWall), 2, KeyOnlyPayload)} :
        /\ ApplyCall(ev)
        /\ UNCHANGED <<runtime, relay, pc, ctx, result, mutex, topo, calls, replayed>>

InitRestore == InitCommon /\ topo = StoreOnly("restore")

NextRestore ==
    \/ LocalWrite("A")
    \/ RestoreApply
    \/ SnapshotRestore("A")

SpecRestore == InitRestore /\ [][NextRestore]_vars

---------------------------------------------------------------------------
(* The snapshot upload of the relay client, the snapshot generation that   *)
(* calls it, and the command that cancels it.  Two callers share one       *)
(* process: its cancel flag and its set of uploads in flight.  r1 is the   *)
(* background task, which can be aborted; r2 is a command.                 *)

MaxUploads == 2

SNAPSHOT_UPLOAD_MAX_ATTEMPTS == 5

\* A client that tries again after every error status.
is_retryable_snapshot_status_any(status) == status >= 400

is_retryable_snapshot_status(status) ==
    status \in {408, 429} \/ (status >= 500 /\ status <= 599)

is_retryable_transport_error(err) ==
    err.kind \in {"timeout", "connect", "request", "body"}

\* A payload is its length and its SHA-256 digest; a checksum header is
\* well formed or not, names a digest, and is written in either case.
Payloads == {[len |-> 0, digest |-> "e3b0"], [len |-> 1, digest |-> "4bf5"]}

Checksums ==
    {[format |-> TRUE, hex |-> p.digest, upper |-> u] : p \in Payloads, u \in BOOLEAN}
        \cup {[format |-> FALSE, hex |-> "", upper |-> FALSE]}

compute_sha256_checksum(payload) ==
    [format |-> TRUE, hex |-> payload.digest, upper |-> FALSE]

\* Uuid::new_v4 and Uuid::now_v7: an id no earlier call has had.
GenIds == <<"g1", "g2", "g3", "g4">>

UploadsStarted == calls["r1"] + calls["r2"]

UploadResult(status, message) == [status |-> status, message |-> message]

IdleUpload ==
    [headers |-> [event_id |-> "none", size_bytes |-> 0,
                  checksum |-> compute_sha256_checksum([len |-> 0, digest |-> "e3b0"])],
     payload_len |-> 0, key |-> <<>>, attempt |-> 0, cancel_flag |-> FALSE,
     generation |-> FALSE, first_event_id |-> "none", cancel_requested |-> FALSE]

\* upload_snapshot_with_cancel_flag up to the first attempt: the checks of
\* the headers against the payload, the event id chosen once, the key of
\* the upload entered in the set of uploads in flight.
upload_snapshot_with_cancel_flag(in_flight, device_id, headers, payload, generated) ==
    LET computed == compute_sha256_checksum(payload)
        event_id == IF headers.event_id = "none" THEN generated ELSE headers.event_id
        dedupe_key == <<device_id, event_id>>
        Refused(message) ==
            [ok |-> FALSE, err |-> UploadResult("InvalidRequest", message)]
    IN  IF headers.size_bytes # payload.len
          THEN Refused("Snapshot size header does not match payload length")
        ELSE IF ~headers.checksum.format
          THEN Refused("Invalid snapshot checksum format")
        ELSE IF headers.checksum.hex # computed.hex
          THEN Refused("Snapshot checksum does not match payload")
        ELSE IF headers.event_id = "not-a-uuid"
          THEN Refused("Invalid snapshot event ID")
        ELSE IF dedupe_key \in in_flight
          THEN Refused("Snapshot upload already in progress for this snapshot event")
        ELSE [ok |-> TRUE, key |-> dedupe_key,
              headers |-> [headers EXCEPT !.event_id = event_id,
                                          !.checksum = computed]]

\* A request that takes a new event id in every attempt.
UploadRequest_new_id(upload_headers, payload_len, attempt) ==
    [event_id |-> GenIds[((attempt - 1) % 4) + 1],
     size_bytes |-> upload_headers.size_bytes,
     content_length |-> upload_headers.size_bytes,
     checksum |-> upload_headers.checksum,
     body_len |-> payload_len, attempt |-> attempt]

\* What one attempt of upload_snapshot_with_retry puts on the wire.
UploadRequest(upload_headers, payload_len, attempt) ==
    [event_id |-> upload_headers.event_id,
     size_bytes |-> upload_headers.size_bytes,
     content_length |-> upload_headers.size_bytes,
     checksum |-> upload_headers.checksum,
     body_len |-> payload_len, attempt |-> attempt]

\* generate_snapshot_now_internal on the result of the upload.
GenerationResult(outcome) ==
    IF outcome.status = "ok"
      THEN UploadResult("uploaded", "Snapshot uploaded")
    ELSE IF outcome.message = "Snapshot upload cancelled"
      THEN UploadResult("cancelled", "Snapshot upload cancelled during transfer")
    ELSE UploadResult("error", outcome.message)

\* What a call of the client or of the generation returns to its caller.
UploadOutcome(r, op, response, outcome, generation) ==
    [op |-> op, runner |-> r, response |-> response, attempts |-> ctx[r].attempt,
     outcome |-> IF generation THEN GenerationResult(outcome) ELSE outcome]

\* The end of upload_snapshot_with_cancel_flag: the key leaves the set and
\* the caller gets the outcome.
UploadReturn(r, op, response, outcome) ==
    /\ pc' = [pc EXCEPT ![r] = "idle"]
    /\ runtime' = [runtime EXCEPT !.in_flight = @ \ {ctx[r].key}]
    /\ ctx' = [ctx EXCEPT ![r] = IdleUpload]
    /\ lastCall' = UploadOutcome(r, op, response, outcome, ctx[r].generation)

UploadBegin(r, headers, payload, cancel_flag, generation) ==
    \E up \in {upload_snapshot_with_cancel_flag(
                   runtime.in_flight, topo.device[r], headers, payload,
                   GenIds[UploadsStarted + 1])} :
        LET call == [payload_len |-> payload.len,
                     size_bytes |-> headers.size_bytes,
                     checksum |-> headers.checksum.format
                                  /\ headers.checksum.hex = payload.digest,
                     event_id |-> headers.event_id, ok |-> up.ok]
        IN  IF up.ok
              THEN /\ pc' = [pc EXCEPT ![r] = "attempt"]
                   /\ runtime' = [runtime EXCEPT !.in_flight = @ \cup {up.key}]
                   /\ ctx' = [ctx EXCEPT
                                ![r] = [IdleUpload EXCEPT
                                          !.headers = up.headers,
                                          !.payload_len = payload.len,
                                          !.key = up.key,
                                          !.cancel_flag = cancel_flag,
                                          !.generation = generation]]
                   /\ lastCall' = EngineCall("upload_snapshot", r, call)
              ELSE /\ pc' = [pc EXCEPT ![r] = "idle"]
                   /\ ctx' = [ctx EXCEPT ![r] = IdleUpload]
                   /\ lastCall' = UploadOutcome(r, "upload_snapshot", call, up.err,
                                           generation)
                   /\ UNCHANGED runtime

\* upload_snapshot: a caller of the client with headers and a payload of
\* its own, and no cancel flag.
UploadSnapshot(r) ==
    /\ pc[r] = "idle"
    /\ UploadsStarted < MaxUploads
    /\ \E payload \in Payloads, checksum \in Checksums, size_bytes \in {0, 1},
          event_id \in {"none", "u1", "not-a-uuid"} :
          UploadBegin(r, [event_id |-> event_id, size_bytes |-> size_bytes,
                          checksum |-> checksum], payload, FALSE, FALSE)
    /\ calls' = [calls EXCEPT ![r] = @ + 1]
    /\ UNCHANGED <<db, relay, result, mutex, topo, replayed, won>>

\* generate_snapshot_now_internal up to the export: the cancel flag is
\* cleared first, then the device is looked up.
GenerateSnapshot(r) ==
    /\ pc[r] = "idle"
    /\ UploadsStarted < MaxUploads
    /\ calls' = [calls EXCEPT ![r] = @ + 1]
    /\ runtime' = [runtime EXCEPT !.snapshot_upload_cancelled = FALSE]
    /\ \E device \in {"trusted", "untrusted", "unknown"} :
          IF device = "trusted"
            THEN /\ pc' = [pc EXCEPT ![r] = "export"]
                 /\ ctx' = [ctx EXCEPT
                              ![r] = [IdleUpload EXCEPT !.generation = TRUE,
                                                        !.cancel_flag = TRUE]]
                 /\ lastCall' = EngineCall("generate_snapshot", r, device)
            ELSE /\ lastCall' =
                        UploadOutcome(r, "generate_snapshot", device,
                                 IF device = "untrusted"
                                   THEN UploadResult("skipped",
                                            "Current device is not trusted")
                                   ELSE UploadResult("error", "Failed to get device"),
                                 FALSE)
                 /\ UNCHANGED <<pc, ctx>>
    /\ UNCHANGED <<db, relay, result, mutex, topo, replayed, won>>

\* generate_snapshot_now_internal from the export to the upload: the flag
\* is read before and after the export, the encrypted image is uploaded
\* under a new event id with the process's cancel flag.
ExportSnapshot(r) ==
    /\ pc[r] = "export"
    /\ IF runtime.snapshot_upload_cancelled
         THEN /\ pc' = [pc EXCEPT ![r] = "idle"]
              /\ ctx' = [ctx EXCEPT ![r] = IdleUpload]
              /\ lastCall' =
                     UploadOutcome(r, "export_snapshot", "cancelled",
                              UploadResult("cancelled",
                                  "Snapshot upload cancelled after export"), FALSE)
              /\ UNCHANGED runtime
         ELSE \E payload \in {p \in Payloads : p.len > 0} :
                  UploadBegin(r, [event_id |-> GenIds[UploadsStarted + 1],
                                  size_bytes |-> payload.len,
                                  checksum |-> compute_sha256_checksum(payload)],
                              payload, TRUE, TRUE)
    /\ UNCHANGED <<db, relay, result, mutex, topo, calls, replayed, won>>

\* The head of the loop of upload_snapshot_with_retry: the cancel flag is
\* read, then the request of this attempt is sent.
UploadAttempt(r) ==
    /\ pc[r] = "attempt"
    /\ IF ctx[r].cancel_flag /\ runtime.snapshot_upload_cancelled
         THEN UploadReturn(r, "upload_cancelled", ctx[r].attempt,
                           UploadResult("InvalidRequest",
                                        "Snapshot upload cancelled"))
         ELSE \E request \in {UploadRequest(ctx[r].headers, ctx[r].payload_len,
                                            ctx[r].attempt + 1)} :
                  /\ pc' = [pc EXCEPT ![r] = "sent"]
                  /\ ctx' = [ctx EXCEPT
                               ![r].attempt = @ + 1,
                               ![r].first_event_id =
                                   IF @ = "none" THEN request.event_id ELSE @]
                  /\ lastCall' = EngineCall("upload_attempt", r, request)
                  /\ UNCHANGED runtime
    /\ UNCHANGED <<db, relay, result, mutex, topo, calls, replayed, won>>

UploadResponses ==
    {[kind |-> "status", status |-> s] : s \in {200, 404, 408, 429, 503}}
        \cup {[kind |-> k, status |-> 0] : k \in {"timeout", "redirect"}}

\* The rest of the loop of upload_snapshot_with_retry: the answer of the
\* relay, or the failure of the transport, ends the upload or leads to the
\* next attempt.
UploadResponse(r) ==
    /\ pc[r] = "sent"
    /\ \E response \in UploadResponses :
          LET again ==
                  /\ ctx[r].attempt < SNAPSHOT_UPLOAD_MAX_ATTEMPTS
                  /\ IF response.kind = "status"
                       THEN is_retryable_snapshot_status(response.status)
                       ELSE is_retryable_transport_error(response)
          IN  IF response.kind = "status" /\ response.status = 200
                THEN UploadReturn(r, "upload_response", response,
                                  UploadResult("ok", ""))
              ELSE IF again
                THEN /\ pc' = [pc EXCEPT ![r] = "attempt"]
                     /\ lastCall' = EngineCall("upload_response", r, response)
                     /\ UNCHANGED <<runtime, ctx>>
              ELSE UploadReturn(r, "upload_response", response,
                       [status |-> IF response.kind = "status" THEN "Api"
                                   ELSE "Http",
                        message |-> "Request failed", error |-> response])
    /\ UNCHANGED <<db, relay, result, mutex, topo, calls, replayed, won>>

\* device_sync_cancel_snapshot_upload.  cancel_requested remembers for
\* which generations and uploads in progress the cancellation was asked.
CancelSnapshotUpload ==
    /\ runtime' = [runtime EXCEPT !.snapshot_upload_cancelled = TRUE]
    /\ ctx' = [r \in Runners |->
                 IF pc[r] # "idle" /\ ctx[r].cancel_flag
                   THEN [ctx[r] EXCEPT !.cancel_requested = TRUE]
                   ELSE ctx[r]]
    /\ lastCall' = EngineCall("cancel_snapshot_upload", "r2", "cancel_requested")
    /\ UNCHANGED <<db, relay, pc, result, mutex, topo, calls, replayed, won>>

\* ensure_background_engine_stopped aborts the background task while its
\* snapshot generation waits for the relay: the future of the upload is
\* dropped where it waits and nothing after that point runs.
AbortTask(r) ==
    /\ r = "r1"
    /\ pc[r] \in {"export", "attempt", "sent"}
    /\ ctx[r].generation
    /\ pc' = [pc EXCEPT ![r] = "idle"]
    /\ ctx' = [ctx EXCEPT ![r] = IdleUpload]
    /\ lastCall' = EngineCall("abort", r, ctx[r].key)
    /\ UNCHANGED <<runtime, db, relay, result, mutex, topo, calls, replayed, won>>

InitUpload ==
    /\ db = [s \in Stores |-> EmptyStore]
    /\ relay = [log |-> <<>>]
    /\ pc = [r \in Runners |-> "idle"]
    /\ ctx = [r \in Runners |-> IdleUpload]
    /\ result = [r \in Runners |-> NoResult]
    /\ mutex = [p \in Procs |-> NoRunner]
    /\ topo = StoreOnly("upload")
    /\ calls = [r \in Runners |-> 0]
    /\ lastCall = NoCall
    /\ replayed = <<>>
    /\ won = EmptyFn
    /\ runtime = DeviceSyncRuntimeState

NextUpload ==
    \/ \E r \in Runners : UploadSnapshot(r)
    \/ \E r \in Runners : GenerateSnapshot(r)
    \/ \E r \in Runners : ExportSnapshot(r)
    \/ \E r \in Runners : UploadAttempt(r)
    \/ \E r \in Runners : UploadResponse(r)
    \/ CancelSnapshotUpload
    \/ AbortTask("r1")

SpecUpload == InitUpload /\ [][NextUpload]_vars

\* Every request ends, with an answer or with the client's timeout, and
\* every backoff sleep ends.
SpecUploadLive ==
    /\ SpecUpload
    /\ \A r \in Runners : WF_vars(UploadAttempt(r)) /\ WF_vars(UploadResponse(r))

---------------------------------------------------------------------------
(* One device whose identity is at key version 2 and may lack its root     *)
(* key: local writes and cycles that encrypt and push them.                *)

InitEncrypt == InitCommon /\ topo = StoreOnly("encrypt")

NextEncrypt ==
    \/ LocalWrite("A")
    \/ Call("r1")
    \/ Begin("r1")
    \/ GetEventsCursor("r1")
    \/ PushEvents("r1")
    \/ VerifyCycleLock("r1")

SpecEncrypt == InitEncrypt /\ [][NextEncrypt]_vars

---------------------------------------------------------------------------
(* One device whose store may fail when the cycle asks for its lock.       *)

InitStorage == InitCommon /\ topo = StoreOnly("storage")

NextStorage ==
    \/ LocalWrite("A")
    \/ Call("r1")
    \/ Begin("r1")
    \/ GetEventsCursor("r1")
    \/ PushEvents("r1")
    \/ VerifyCycleLock("r1")

SpecStorage == InitStorage /\ [][NextStorage]_vars

---------------------------------------------------------------------------
(* The background task: ensure_background_engine_started and _stopped, and *)
(* the loop of the spawned task.  A task runs from one await to the next   *)
(* in one step; abort cancels it where it waits.                           *)

MaxSpawns == 3

MaxLoopCycles == 5

MaxConsecutiveNotReady == 5

\* The statuses a cycle may hand to the loop; Err is Err(String)
LoopStatuses == {"ok", "not_ready", "config_error", "state_error", "Err"}

SpawnedTask == [state |-> "spawned", consecutive_not_ready |-> 0, cycles |-> 0]

\* JoinHandle::is_finished
is_finished(task) == task.state \in {"finished", "aborted"}

LiveTasks(rt) == {t \in 1..Len(rt.tasks) : ~is_finished(rt.tasks[t])}

\* A start that spawns even when the stored task is live
ensure_background_engine_started_again(rt, identity) ==
    IF ~identity THEN rt
    ELSE [rt EXCEPT !.tasks = Append(@, SpawnedTask),
                    !.background_task = Len(rt.tasks) + 1]

ensure_background_engine_started(rt, identity) ==
    IF ~identity THEN rt
    ELSE IF rt.background_task # NoTask
            /\ ~is_finished(rt.tasks[rt.background_task])
    THEN rt
    ELSE [rt EXCEPT !.tasks = Append(@, SpawnedTask),
                    !.background_task = Len(rt.tasks) + 1]

\* guard.take() and handle.abort(); abort leaves a finished task as it is
ensure_background_engine_stopped(rt) ==
    IF rt.background_task = NoTask THEN rt
    ELSE [rt EXCEPT !.tasks[rt.background_task].state =
                        IF @ = "finished" THEN @ ELSE "aborted",
                    !.background_task = NoTask]

\* The loop after run_sync_cycle returned: the counter, the two breaks,
\* and otherwise the sleep
LoopAfterCycle(task, status, revoked) ==
    LET counted == status \in {"not_ready", "config_error"}
        n == IF counted THEN task.consecutive_not_ready + 1 ELSE 0
    IN  [task EXCEPT !.consecutive_not_ready = n,
                     !.state = IF counted /\ (revoked \/ n >= MaxConsecutiveNotReady)
                               THEN "finished" ELSE "sleep"]

TaskCall(op, t, input) == [op |-> op, task |-> t, identity |-> input]

EnsureStarted ==
    /\ Len(runtime.tasks) < MaxSpawns
    /\ \E identity \in BOOLEAN :
          /\ runtime' = ensure_background_engine_started(runtime, identity)
          /\ lastCall' = TaskCall("ensure_started", runtime.background_task, identity)
    /\ UNCHANGED <<db, relay, pc, ctx, result, mutex, topo, calls, replayed, won>>

EnsureStopped ==
    /\ runtime' = ensure_background_engine_stopped(runtime)
    /\ lastCall' = TaskCall("ensure_stopped", runtime.background_task, FALSE)
    /\ UNCHANGED <<db, relay, pc, ctx, result, mutex, topo, calls, replayed, won>>

\* The first poll of a task, or its wake-up from the sleep: the next cycle
TaskRunCycle(t) ==
    /\ t \in 1..Len(runtime.tasks)
    /\ runtime.tasks[t].state \in {"spawned", "sleep"}
    /\ runtime.tasks[t].cycles < MaxLoopCycles
    /\ runtime' = [runtime EXCEPT !.tasks[t].state = "cycle",
                                  !.tasks[t].cycles = @ + 1]
    /\ lastCall' = TaskCall("run_sync_cycle", t, FALSE)
    /\ UNCHANGED <<db, relay, pc, ctx, result, mutex, topo, calls, replayed, won>>

TaskCycleReturn(t) ==
    /\ t \in 1..Len(runtime.tasks)
    /\ runtime.tasks[t].state = "cycle"
    /\ \E status \in LoopStatuses, revoked \in BOOLEAN :
          /\ runtime' = [runtime EXCEPT !.tasks[t] = LoopAfterCycle(@, status, revoked)]
          /\ lastCall' = TaskCall(status, t, ~revoked)
    /\ UNCHANGED <<db, relay, pc, ctx, result, mutex, topo, calls, replayed, won>>

InitTask == InitCommon /\ topo = StoreOnly("task")

NextTask ==
    \/ EnsureStarted
    \/ EnsureStopped
    \/ \E t \in 1..MaxSpawns : TaskRunCycle(t)
    \/ \E t \in 1..MaxSpawns : TaskCycleReturn(t)

SpecTask == InitTask /\ [][NextTask]_vars

---------------------------------------------------------------------------
(* One device, a relay that keeps its log and receives the events of       *)
(* another device, and a background task that is aborted in its cycle.     *)
(* The future of the cycle is dropped where it waits: for the relay, or    *)
(* for the writer, whose job has run when the abort comes or never runs.   *)

AbortPoints(r) ==
    CASE pc[r] = "push" -> {"request", "push_sent", "outbox_marked"}
      [] pc[r] = "pull" -> {"request", "batch_applied"}
      [] OTHER -> {"request"}

\* What the store holds when the cycle is dropped at the point
AbortedStore(r, point) ==
    LET store == StoreOf(r)
        ids == SeqRange(ctx[r].push_event_ids)
    IN  CASE point = "outbox_marked" -> mark_outbox_sent(store, ids)
          [] point = "batch_applied" ->
                LET response == CHOOSE p \in PullResponses(r) : TRUE
                    decoded == DecodeEvents(response.events, topo.device[r],
                                            ctx[r].has_root_key, <<>>)
                    batch == apply_remote_events_lww_batch(store, decoded.events)
                IN  IF decoded.status = "ok" /\ batch.ok THEN batch.conn ELSE store
          [] OTHER -> store

\* The future of the cycle is dropped where it waits
DropCycle(r) ==
    /\ InCycle(r)
    /\ \E point \in AbortPoints(r) :
          /\ db' = [db EXCEPT ![topo.store[r]] = AbortedStore(r, point)]
          /\ relay' = IF point \in {"push_sent", "outbox_marked"}
                      THEN [relay EXCEPT !.log =
                              RelayStore(@, PushRequest(StoreOf(r), ctx[r],
                                                        topo.device[r]))]
                      ELSE relay
          /\ lastCall' = EngineCall("abort", r, point)
    /\ pc' = [pc EXCEPT ![r] = "idle"]
    /\ ctx' = [ctx EXCEPT ![r] = InitCtx]
    /\ UNCHANGED <<runtime, result, topo, calls, replayed, won>>

\* An abort after which the guard of the cycle mutex stays where it was
AbortCycle_guard_kept(r) == DropCycle(r) /\ UNCHANGED mutex

\* handle.abort() while the task is inside run_sync_cycle; the guard of the
\* cycle mutex is dropped with the future
AbortCycle(r) ==
    /\ DropCycle(r)
    /\ mutex' = [mutex EXCEPT ![topo.proc[r]] = NoRunner]

InitAbort == InitCommon /\ topo = StoreOnly("abort")

NextAbort ==
    \/ LocalWrite("A")
    \/ RelayReceives
    \/ Call("r1")
    \/ Begin("r1")
    \/ GetEventsCursor("r1")
    \/ PushEvents("r1")
    \/ VerifyCycleLock("r1")
    \/ PullEvents("r1")
    \/ AbortCycle("r1")

SpecAbort == InitAbort /\ [][NextAbort]_vars

---------------------------------------------------------------------------
(* The snapshot policy of the background loop.  The relay keeps the time   *)
(* and the latest snapshot it accepted; the policy state is in the memory  *)
(* of the process.                                                         *)

DEVICE_SYNC_SNAPSHOT_INTERVAL_SECS == 86400

DEVICE_SYNC_SNAPSHOT_EVENT_THRESHOLD == 1000

MaxTicks == 3

\* The clock moves in steps of half the interval
ClockStep == DEVICE_SYNC_SNAPSHOT_INTERVAL_SECS \div 2

PolicyCursors ==
    {0, DEVICE_SYNC_SNAPSHOT_EVENT_THRESHOLD - 1, DEVICE_SYNC_SNAPSHOT_EVENT_THRESHOLD,
     2 * DEVICE_SYNC_SNAPSHOT_EVENT_THRESHOLD}

\* What generate_snapshot_now_internal returns: Err is Err(String)
GenerationOutcomes == {"uploaded", "skipped", "cancelled", "Err"}

due_by_time(state, now) ==
    IF state.last_uploaded_at.present
    THEN now - state.last_uploaded_at.at >= DEVICE_SYNC_SNAPSHOT_INTERVAL_SECS
    ELSE TRUE

due_by_seq(state, cursor) ==
    cursor - state.last_uploaded_cursor >= DEVICE_SYNC_SNAPSHOT_EVENT_THRESHOLD

\* The policy after a cycle that returned ok: whether the generation is
\* called, and the policy state afterwards
maybe_generate_snapshot_for_policy(state, cursor, now, outcome, oplog_seq) ==
    IF ~due_by_time(state, now) /\ ~due_by_seq(state, cursor)
    THEN [attempted |-> FALSE, state |-> state]
    ELSE [attempted |-> TRUE,
          state |-> IF outcome = "uploaded"
                    THEN [last_uploaded_at |-> [present |-> TRUE, at |-> now],
                          last_uploaded_cursor |-> oplog_seq]
                    ELSE state]

\* The relay after a generation with the outcome
RelayAfterUpload(outcome, oplog_seq) ==
    IF outcome = "uploaded"
    THEN [relay EXCEPT !.snapshot = [present |-> TRUE, at |-> relay.now,
                                     oplog_seq |-> oplog_seq]]
    ELSE relay

PolicyCall(op, status, attempted, outcome) ==
    [op |-> op, status |-> status, attempted |-> attempted, outcome |-> outcome]

\* One turn of the background loop: the cycle, which may move the cursor,
\* and the policy when the cycle returned ok
LoopIteration(r) ==
    \E status \in LoopStatuses, outcome \in GenerationOutcomes,
       cursor \in {c \in PolicyCursors : c >= get_cursor(StoreOf(r))} :
       \E oplog_seq \in {c \in PolicyCursors : c >= cursor} :
          LET policy == IF status = "ok"
                        THEN maybe_generate_snapshot_for_policy(
                                 runtime.snapshot_policy, cursor, relay.now,
                                 outcome, oplog_seq)
                        ELSE [attempted |-> FALSE, state |-> runtime.snapshot_policy]
          IN  /\ db' = [db EXCEPT ![topo.store[r]] =
                          IF status = "ok" THEN set_cursor(@, cursor) ELSE @]
              /\ result' = [result EXCEPT ![r] = [NoResult EXCEPT !.status = status]]
              /\ runtime' = [runtime EXCEPT !.snapshot_policy = policy.state]
              /\ relay' = IF policy.attempted
                          THEN RelayAfterUpload(outcome, oplog_seq) ELSE relay
              /\ lastCall' = PolicyCall("loop", status, policy.attempted,
                                        IF policy.attempted THEN outcome ELSE "none")
              /\ UNCHANGED <<pc, ctx, mutex, topo, calls, replayed, won>>

\* device_sync_generate_snapshot_now, the command of the user
GenerateSnapshotNow ==
    /\ \E outcome \in GenerationOutcomes :
          /\ relay' = RelayAfterUpload(outcome, get_cursor(db["A"]))
          /\ lastCall' = PolicyCall("generate_snapshot_now", "none", TRUE, outcome)
    /\ UNCHANGED <<runtime, db, pc, ctx, result, mutex, topo, calls, replayed, won>>

\* The process ends and starts again: DeviceSyncRuntimeState::new
RestartProcess ==
    /\ runtime # DeviceSyncRuntimeState
    /\ runtime' = DeviceSyncRuntimeState
    /\ lastCall' = PolicyCall("restart", "none", FALSE, "none")
    /\ UNCHANGED <<db, relay, pc, ctx, result, mutex, topo, calls, replayed, won>>

Tick ==
    /\ relay.now < MaxTicks * ClockStep
    /\ relay' = [relay EXCEPT !.now = @ + ClockStep]
    /\ lastCall' = PolicyCall("tick", "none", FALSE, "none")
    /\ UNCHANGED <<runtime, db, pc, ctx, result, mutex, topo, calls, replayed, won>>

InitPolicy ==
    /\ InitLocal
    /\ relay = [log |-> <<>>, now |-> 0,
                snapshot |-> [present |-> FALSE, at |-> 0, oplog_seq |-> 0]]
    /\ topo = StoreOnly("policy")

NextPolicy ==
    \/ LoopIteration("r1")
    \/ GenerateSnapshotNow
    \/ RestartProcess
    \/ Tick

SpecPolicy == InitPolicy /\ [][NextPolicy]_vars

---------------------------------------------------------------------------
(* Snapshots with their encryption: another device uploads the image of    *)
(* its tables, the relay keeps the blob with its metadata, and this device *)
(* bootstraps from what the relay answers.  All devices hold the same root *)
(* key; a DEK is named by its key version.                                 *)

LOCAL_SCHEMA_VERSION == 1

\* key_version 0 stands for None
SyncIdentity(has_root_key, key_version) ==
    [has_root_key |-> has_root_key, key_version |-> key_version]

\* The encrypted bytes: the DEK they are under, the cursor of the image
\* and whether the bytes were altered after the encryption
SnapshotBlob(dek, oplog_seq, image) ==
    [dek |-> dek, oplog_seq |-> oplog_seq, damaged |-> FALSE, image |-> image]

\* crypto::sha256_checksum of the bytes of a blob
sha256_checksum(blob) == <<"sha256", blob.dek, blob.oplog_seq, blob.damaged>>

NoChecksum == <<>>

OtherChecksum == <<"sha256", 0, 0, TRUE>>

\* What generate_snapshot_now_internal hands to the upload
SnapshotUpload(image, identity, oplog_seq) ==
    LET key_version == IF identity.key_version > 1 THEN identity.key_version ELSE 1
        payload == SnapshotBlob(key_version, oplog_seq, image)
    IN  [schema_version |-> 1, payload_key_version |-> key_version,
         checksum |-> sha256_checksum(payload), payload |-> payload]

\* The third argument is not read: the DEK is derived from the key_version
\* of the identity
decode_snapshot_sqlite_payload(blob, identity, payload_key_version) ==
    IF ~identity.has_root_key \/ identity.key_version <= 0
    THEN [ok |-> FALSE, image |-> blob.image]
    ELSE IF blob.damaged \/ blob.dek # identity.key_version
    THEN [ok |-> FALSE, image |-> blob.image]
    ELSE [ok |-> blob.image.sqlite, image |-> blob.image]

\* A check of the schema version and of the metadata checksum alone
SnapshotRejected_unchecked_header(latest, headers, blob) ==
    \/ latest.schema_version > LOCAL_SCHEMA_VERSION
    \/ latest.checksum # NoChecksum /\ latest.checksum # sha256_checksum(blob)

\* The checks between the metadata and the decoding: the schema version,
\* the checksum header, and the checksum of the metadata unless it is empty
SnapshotRejected(latest, headers, blob) ==
    \/ latest.schema_version > LOCAL_SCHEMA_VERSION
    \/ headers.checksum # sha256_checksum(blob)
    \/ latest.checksum # NoChecksum /\ latest.checksum # sha256_checksum(blob)

\* sync_bootstrap_snapshot_if_needed for a device in state Ready with its
\* identity, from the metadata of the latest snapshot, the headers of the
\* download and the bytes
BootstrapFromSnapshot(store, identity, latest, headers, blob) ==
    LET trusted == upsert_device_config(store, "trusted")
        decoded == decode_snapshot_sqlite_payload(blob, identity,
                                                  latest.payload_key_version)
        restore_result ==
            restore_snapshot_tables_from_file(trusted, decoded.image, {},
                                              latest.oplog_seq)
    IN  IF ~needs_bootstrap(trusted)
        THEN [status |-> "skipped", store |-> trusted]
        ELSE IF ~latest.present
        THEN [status |-> "skipped", store |-> mark_bootstrap_complete(trusted)]
        ELSE IF SnapshotRejected(latest, headers, blob)
        THEN [status |-> "error", store |-> trusted]
        ELSE IF ~decoded.ok
        THEN [status |-> "error", store |-> trusted]
        ELSE IF ~restore_result.ok
        THEN [status |-> "error", store |-> restore_result.conn]
        ELSE [status |-> "applied", store |-> restore_result.conn]

\* Another device, which has replayed the whole log, uploads a snapshot
\* under the key version of its identity
OtherUploadsSnapshot ==
    /\ ~relay.snapshot.present \/ relay.snapshot.oplog_seq < Len(relay.log)
    /\ \E key_version \in 0..2 :
         LET rows == apply_remote_events_lww_batch(
                         EmptyStore,
                         DecodeEvents(relay.log, "none", TRUE, <<>>).events).conn.goals
             image == SnapshotImage(TRUE,
                         [goals |-> [columns |-> TableColumns, rows |-> rows]])
             upload == SnapshotUpload(image, SyncIdentity(TRUE, key_version),
                                      Len(relay.log))
         IN  relay' = [relay EXCEPT !.snapshot =
                          [present |-> TRUE, oplog_seq |-> Len(relay.log),
                           upload |-> upload]]
    /\ lastCall' = EngineCall("upload_snapshot", NoRunner, 0)
    /\ UNCHANGED <<runtime, db, pc, ctx, result, mutex, topo, calls, replayed, won>>

\* The answers of a relay that is not trusted: the schema version and the
\* checksum of the metadata, the checksum header, and bytes that may have
\* been altered
SnapshotAnswers ==
    [schema_version : {LOCAL_SCHEMA_VERSION, LOCAL_SCHEMA_VERSION + 1},
     metadata : {"same", "empty", "other"},
     header : {"stored", "received", "other"},
     damaged : BOOLEAN]

\* The bytes, the metadata and the headers that the relay gives with an
\* answer
AnswerBlob(answer) ==
    [relay.snapshot.upload.payload EXCEPT !.damaged = answer.damaged]

AnswerLatest(answer) ==
    [present |-> relay.snapshot.present,
     oplog_seq |-> relay.snapshot.oplog_seq,
     schema_version |-> answer.schema_version,
     payload_key_version |-> relay.snapshot.upload.payload_key_version,
     checksum |-> CASE answer.metadata = "same" -> relay.snapshot.upload.checksum
                    [] answer.metadata = "empty" -> NoChecksum
                    [] OTHER -> OtherChecksum]

AnswerHeaders(answer) ==
    [checksum |-> CASE answer.header = "stored" -> relay.snapshot.upload.checksum
                    [] answer.header = "received" -> sha256_checksum(AnswerBlob(answer))
                    [] OTHER -> OtherChecksum]

\* The command device_sync_bootstrap_snapshot_if_needed
BootstrapSnapshot(r) ==
    /\ \E answer \in SnapshotAnswers :
         LET blob == AnswerBlob(answer)
             latest == AnswerLatest(answer)
             headers == AnswerHeaders(answer)
             identity == SyncIdentity(TRUE, IdentityKeyVersion)
         IN  \E out \in {BootstrapFromSnapshot(StoreOf(r), identity, latest,
                                                headers, blob)} :
                /\ db' = [db EXCEPT ![topo.store[r]] = out.store]
                /\ lastCall' = EngineCall("bootstrap_snapshot", r,
                                  [status |-> out.status, answer |-> answer,
                                   present |-> relay.snapshot.present,
                                   checked |-> needs_bootstrap(
                                       upsert_device_config(StoreOf(r), "trusted"))])
    /\ UNCHANGED <<runtime, relay, pc, ctx, result, mutex, topo, calls, replayed, won>>

InitSnapshot ==
    /\ InitLocal
    /\ relay = [log |-> <<>>,
                snapshot |-> [present |-> FALSE, oplog_seq |-> 0,
                              upload |-> SnapshotUpload(SnapshotImage(FALSE, EmptyFn),
                                                        SyncIdentity(TRUE, 1), 0)]]
    /\ \E key_version \in 1..2 :
          topo = [name |-> "snapshot", store |-> [r \in Runners |-> "A"],
                  proc |-> [r \in Runners |-> "p1"],
                  device |-> [r \in Runners |-> "devA"],
                  key_version |-> key_version]

NextSnapshot ==
    \/ LocalWrite("A")
    \/ RelayReceives
    \/ OtherUploadsSnapshot
    \/ BootstrapSnapshot("r1")

SpecSnapshot == InitSnapshot /\ [][NextSnapshot]_vars

---------------------------------------------------------------------------
(* The pairing handshake: the issuer r1 on device devA holds the root key, *)
(* the claimer r2 on device devB asks for it.  A field of a request is the *)
(* set of values it carries and the secret one needs to read them; the     *)
(* relay reads every field that needs no secret and remembers what it read.*)

MaxPairings == 2

RootKey == "root_key"

Codes == {"code1", "code2"}

CodeHash == [c \in Codes |-> IF c = "code1" THEN "hash1" ELSE "hash2"]

PublicKey == [r \in Runners |-> IF r = "r1" THEN "issuer_pub" ELSE "claimer_pub"]

Plain(values) == [under |-> {}, carries |-> values]

\* The secret both sides derive, each from its own ephemeral private key
\* and the public key of the other: it is the secret of the pair of keys.
SharedSecret(own, peer_public) == {PublicKey[own], peer_public}

\* The key bundle: the identity encrypted under the shared secret.
EncryptKeyBundle(secret, identity) ==
    [under |-> secret, carries |-> {identity.root_key, identity.key_version}]

NoIdentity == [root_key |-> "none", key_version |-> "none"]

IdlePairing == [code |-> "none", peer |-> "none", pairing_id |-> 0,
                identity |-> NoIdentity]

NoSession == [state |-> "none", pairing_id |-> 0, code_hash |-> "none",
              issuer_public |-> "none", claimer_public |-> "none",
              bundle |-> Plain({})]

\* A request of the relay client: the device id goes in a header, the
\* pairing id in the URL, the fields in the JSON body.
PairingRequest(op, device_id, pairing_id, body) ==
    [op |-> op, device_id |-> device_id, pairing_id |-> pairing_id, body |-> body]

\* A command that sends the root key of the identity along with the bundle.
complete_pairing_with_key(device_id, pairing_id, encrypted_key_bundle, sas_proof, signature) ==
    PairingRequest("complete", device_id, pairing_id,
                   [encrypted_key_bundle |-> encrypted_key_bundle,
                    sas_proof |-> Plain({sas_proof}),
                    signature |-> Plain({signature, RootKey})])

complete_pairing(device_id, pairing_id, encrypted_key_bundle, sas_proof, signature) ==
    PairingRequest("complete", device_id, pairing_id,
                   [encrypted_key_bundle |-> encrypted_key_bundle,
                    sas_proof |-> Plain({sas_proof}),
                    signature |-> Plain({signature})])

\* What the relay reads in a request: the fields that need no secret.
Readable(request) ==
    UNION {request.body[f].carries :
              f \in {g \in DOMAIN request.body : request.body[g].under = {}}}

\* The relay on a request: the session after it, and the answer.
RelayPairing(session, request) ==
    LET Refuse == [session |-> session, ok |-> FALSE]
        Accept(next) == [session |-> next, ok |-> TRUE]
        current == session.state \notin {"none", "cancelled", "confirmed"}
                       /\ request.pairing_id = session.pairing_id
    IN  CASE request.op = "create" ->
               Accept([NoSession EXCEPT
                         !.state = "pending",
                         !.pairing_id = session.pairing_id + 1,
                         !.code_hash = CHOOSE h \in request.body.code_hash.carries : TRUE,
                         !.issuer_public =
                             CHOOSE k \in request.body.ephemeral_public_key.carries : TRUE])
          [] request.op = "claim" ->
               IF session.state = "pending"
                    /\ \E c \in request.body.code.carries : CodeHash[c] = session.code_hash
                 THEN Accept([session EXCEPT
                                !.state = "claimed",
                                !.claimer_public =
                                    CHOOSE k \in request.body.ephemeral_public_key.carries :
                                        TRUE])
                 ELSE Refuse
          [] request.op = "approve" ->
               IF current /\ session.state = "claimed"
                 THEN Accept([session EXCEPT !.state = "approved"]) ELSE Refuse
          [] request.op = "complete" ->
               IF current /\ session.state = "approved"
                 THEN Accept([session EXCEPT
                                !.state = "completed",
                                !.bundle = request.body.encrypted_key_bundle])
                 ELSE Refuse
          [] request.op = "confirm" ->
               IF current /\ session.state = "completed"
                 THEN Accept([session EXCEPT !.state = "confirmed"]) ELSE Refuse
          [] request.op = "cancel" ->
               IF current THEN Accept([session EXCEPT !.state = "cancelled"])
               ELSE Refuse
          [] OTHER -> IF current THEN Accept(session) ELSE Refuse

\* One command of the pairing: its request reaches the relay, which reads
\* it and answers; the command ends in the stage then or, refused, in idle.
PairingCommand(r, request, then, context) ==
    \E answer \in {RelayPairing(relay.session, request)} :
        /\ relay' = [relay EXCEPT !.session = answer.session,
                                  !.knows = @ \cup Readable(request)]
        /\ pc' = [pc EXCEPT ![r] = IF answer.ok THEN then ELSE "idle"]
        /\ ctx' = [ctx EXCEPT ![r] = IF answer.ok THEN context
                                     ELSE [IdlePairing EXCEPT
                                             !.identity = ctx[r].identity]]
        /\ lastCall' = EngineCall(request.op, r, request)
        /\ UNCHANGED <<runtime, db, result, mutex, topo, replayed, won>>

CreatePairing ==
    /\ pc["r1"] = "idle"
    /\ calls["r1"] < MaxPairings
    /\ calls' = [calls EXCEPT !["r1"] = @ + 1]
    /\ \E code \in Codes :
          PairingCommand("r1",
              PairingRequest("create", topo.device["r1"], 0,
                             [code_hash |-> Plain({CodeHash[code]}),
                              ephemeral_public_key |-> Plain({PublicKey["r1"]})]),
              "created",
              [ctx["r1"] EXCEPT !.code = code,
                                !.pairing_id = relay.session.pairing_id + 1])

ClaimPairing ==
    /\ pc["r2"] = "idle"
    /\ calls["r2"] < MaxPairings
    /\ calls' = [calls EXCEPT !["r2"] = @ + 1]
    /\ \E code \in Codes :
          PairingCommand("r2",
              PairingRequest("claim", topo.device["r2"], 0,
                             [code |-> Plain({code}),
                              ephemeral_public_key |-> Plain({PublicKey["r2"]})]),
              "claimed",
              [ctx["r2"] EXCEPT !.code = code,
                                !.pairing_id = relay.session.pairing_id,
                                !.peer = relay.session.issuer_public])

\* get_pairing: the issuer sees the claim and the claimer's public key.
GetPairing ==
    /\ pc["r1"] = "created"
    /\ PairingCommand("r1",
           PairingRequest("get", topo.device["r1"], ctx["r1"].pairing_id, <<>>),
           IF relay.session.state = "claimed" THEN "seen" ELSE "created",
           [ctx["r1"] EXCEPT !.peer = relay.session.claimer_public])
    /\ UNCHANGED calls

ApprovePairing ==
    /\ pc["r1"] = "seen"
    /\ PairingCommand("r1",
           PairingRequest("approve", topo.device["r1"], ctx["r1"].pairing_id, <<>>),
           "approved", ctx["r1"])
    /\ UNCHANGED calls

\* The issuer encrypts its identity for the claimer and completes.
CompletePairing ==
    /\ pc["r1"] = "approved"
    /\ PairingCommand("r1",
           complete_pairing(topo.device["r1"], ctx["r1"].pairing_id,
               EncryptKeyBundle(SharedSecret("r1", ctx["r1"].peer), ctx["r1"].identity),
               "sas_proof", "signature"),
           "idle", [IdlePairing EXCEPT !.identity = ctx["r1"].identity])
    /\ UNCHANGED calls

\* get_pairing_messages: the claimer gets the bundle once the issuer has
\* completed, and opens it with the secret it derives.
GetPairingMessages ==
    /\ pc["r2"] = "claimed"
    /\ LET bundle == relay.session.bundle
           opened == relay.session.state = "completed"
                        /\ bundle.under = SharedSecret("r2", ctx["r2"].peer)
       IN  PairingCommand("r2",
               PairingRequest("messages", topo.device["r2"], ctx["r2"].pairing_id, <<>>),
               IF opened THEN "opened" ELSE "claimed",
               IF opened
                 THEN [ctx["r2"] EXCEPT
                         !.identity = [root_key |-> RootKey,
                                       key_version |->
                                           CHOOSE v \in bundle.carries : v # RootKey]]
                 ELSE ctx["r2"])
    /\ UNCHANGED calls

ConfirmPairing ==
    /\ pc["r2"] = "opened"
    /\ PairingCommand("r2",
           PairingRequest("confirm", topo.device["r2"], ctx["r2"].pairing_id,
                          [proof |-> Plain({"sas_proof"})]),
           "idle", [IdlePairing EXCEPT !.identity = ctx["r2"].identity])
    /\ UNCHANGED calls

CancelPairing(r) ==
    /\ pc[r] # "idle"
    /\ PairingCommand(r,
           PairingRequest("cancel", topo.device[r], ctx[r].pairing_id, <<>>),
           "idle", [IdlePairing EXCEPT !.identity = ctx[r].identity])
    /\ UNCHANGED calls

InitPairing ==
    /\ db = [s \in Stores |-> EmptyStore]
    /\ relay = [log |-> <<>>, session |-> NoSession, knows |-> {}]
    /\ pc = [r \in Runners |-> "idle"]
    /\ \E key_version \in {"v1", "v2"} :
          ctx = [r \in Runners |->
                   IF r = "r1"
                     THEN [IdlePairing EXCEPT
                             !.identity = [root_key |-> RootKey,
                                           key_version |-> key_version]]
                     ELSE IdlePairing]
    /\ result = [r \in Runners |-> NoResult]
    /\ mutex = [p \in Procs |-> NoRunner]
    /\ topo = [TwoDevices EXCEPT !.name = "pairing"]
    /\ calls = [r \in Runners |-> 0]
    /\ lastCall = NoCall
    /\ replayed = <<>>
    /\ won = EmptyFn
    /\ runtime = DeviceSyncRuntimeState

NextPairing ==
    \/ CreatePairing
    \/ ClaimPairing
    \/ GetPairing
    \/ ApprovePairing
    \/ CompletePairing
    \/ GetPairingMessages
    \/ ConfirmPairing
    \/ \E r \in Runners : CancelPairing(r)

SpecPairing == InitPairing /\ [][NextPairing]_vars

---------------------------------------------------------------------------
(* The applier on payloads of every shape: the whole row, a key that is    *)
(* no column of the table, a primary key of another entity.                *)

PayloadEvents ==
    {RemoteEvent("g1", k[1], i, [wall |-> w, frac |-> 0, zone |-> "+00:00"],
                 SeqOfEvent(i), k[2]) :
        k \in {<<"create", Obj({"id", "amount"}, "g1", "100")>>,
               <<"create", Obj({"id", "nonexistent_column"}, "g1", Null)>>,
               <<"update", Obj({"amount", "nonexistent_column"}, "g1", "200")>>,
               <<"update", Obj({"id", "amount"}, "g2", "200")>>,
               <<"request", Obj({"id"}, "g2", Null)>>,
               <<"delete", KeyOnlyPayload>>},
        i \in EventIds, w \in 0..MaxWall}

PayloadApply ==
    \E ev \in PayloadEvents :
        \E r \in {apply_remote_event_lww(db["A"], ev)} :
            /\ db' = [db EXCEPT !["A"] = r.conn]
            /\ lastCall' = [op |-> "replay", event |-> ev, ret |-> RetOf(r)]
            /\ UNCHANGED <<runtime, relay, pc, ctx, result, mutex, topo, calls,
                           replayed, won>>

InitPayload == InitCommon /\ topo = StoreOnly("payload")

NextPayload == PayloadApply

SpecPayload == InitPayload /\ [][NextPayload]_vars

---------------------------------------------------------------------------
(* Claims on the replay applier *)

StoreA == db["A"]

WellFormed(ev) == parse_timestamp_millis(ev.client_timestamp).ok

MillisOf(ev) == parse_timestamp_millis(ev.client_timestamp).millis

\* A delete, or a create/update/request carrying every column of the row
WholeRow(ev) == ev.op = "delete" \/ DOMAIN ev.payload.fields = TableColumns

Outranks(e, f) ==
    \/ MillisOf(e) > MillisOf(f)
    \/ MillisOf(e) = MillisOf(f) /\ e.event_id > f.event_id

Greatest(q) ==
    CHOOSE e \in SeqRange(q) : \A f \in SeqRange(q) \ {e} : Outranks(e, f)

RowsAfter(e) ==
    IF e.op = "delete"
    THEN EmptyFn
    ELSE Put(EmptyFn, e.entity_id, [c \in DataColumns |-> e.payload.fields[c]])

MetadataAfter(e) ==
    Put(EmptyFn, e.entity_id,
        [last_event_id |-> e.event_id,
         last_client_timestamp |-> e.client_timestamp,
         last_seq |-> e.seq])

RECURSIVE ReplayAll(_, _)
ReplayAll(store, q) ==
    IF q = <<>> THEN store
    ELSE ReplayAll(apply_remote_event_lww(store, Head(q)).conn, Tail(q))

Orders(q) ==
    {[i \in 1..Len(q) |-> q[p[i]]] :
        p \in {f \in [1..Len(q) -> 1..Len(q)] :
                  \A i, j \in 1..Len(q) : f[i] = f[j] => i = j}}

\* C3 (as stated): any events on one entity, each applied once, leave the
\* same row and metadata whatever the order of application.
C3_AnyEventsAnyOrder ==
    \A q \in Orders(replayed) :
        /\ ReplayAll(EmptyStore, q).goals = StoreA.goals
        /\ ReplayAll(EmptyStore, q).sync_entity_metadata = StoreA.sync_entity_metadata

\* C3: events with distinct ids and RFC 3339 timestamps, each a delete or a
\* whole row, applied once each to a store that held nothing for the entity:
\* after every order of application the row and the metadata are those of
\* the event greatest by (timestamp in milliseconds, event_id).
C3_LwwDeterminism ==
    (/\ replayed # <<>>
     /\ \A e \in SeqRange(replayed) : WellFormed(e) /\ WholeRow(e))
    => /\ StoreA.goals = RowsAfter(Greatest(replayed))
       /\ StoreA.sync_entity_metadata = MetadataAfter(Greatest(replayed))

C3_Witness ==
    /\ Len(replayed) = 3
    /\ \A e \in SeqRange(replayed) : WellFormed(e) /\ WholeRow(e)
    /\ Greatest(replayed) = replayed[2]
    /\ MillisOf(replayed[2]) = MillisOf(replayed[1])
    /\ replayed[2].client_timestamp # replayed[3].client_timestamp
    /\ lastCall.ret = "false"
    /\ StoreA.goals = RowsAfter(replayed[2])

\* C4 (as stated): an event that has returned true returns false every
\* later time it is applied.
C4_NeverTrueAgain ==
    [][(lastCall'.op = "apply" /\ lastCall'.again) => lastCall'.ret # "true"]_vars

\* C4: applying an event whose event_id is in the applied log returns false
\* and changes nothing; an apply that returns true found the id absent from
\* the log and leaves it there, so it returns false for as long as the id
\* stays in the log.
C4_IdempotentApply ==
    [][lastCall'.op = "apply" =>
          /\ lastCall'.event_id \in DOMAIN StoreA.sync_applied_events
                => lastCall'.ret = "false" /\ db' = db
          /\ lastCall'.ret = "true"
                => /\ lastCall'.event_id \notin DOMAIN StoreA.sync_applied_events
                   /\ lastCall'.event_id \in DOMAIN StoreA'.sync_applied_events]_vars

C4_Witness ==
    /\ lastCall.op = "apply"
    /\ lastCall.ret = "false"
    /\ lastCall.again
    /\ lastCall.event_id \in DOMAIN StoreA.sync_applied_events
    /\ StoreA.sync_entity_metadata["g1"].last_event_id # lastCall.event_id

\* The comparison the applier makes: instants in whole milliseconds when
\* both timestamps are RFC 3339, the strings themselves otherwise; the
\* greater event_id decides a tie.
LwwByMillisOrString(local_ts, local_id, remote_ts, remote_id) ==
    IF parse_timestamp_millis(local_ts).ok /\ parse_timestamp_millis(remote_ts).ok
    THEN \/ parse_timestamp_millis(remote_ts).millis > parse_timestamp_millis(local_ts).millis
         \/ /\ parse_timestamp_millis(remote_ts).millis = parse_timestamp_millis(local_ts).millis
            /\ remote_id > local_id
    ELSE \/ StrGreater(remote_ts, local_ts)
         \/ remote_ts = local_ts /\ remote_id > local_id

\* The instant an RFC 3339 timestamp denotes, in units of 100 microseconds
InstantOf(ts) == (ts.wall - ZoneOffsetHours(ts.zone)) * 36000000 + ts.frac

LwwByInstant(local_ts, local_id, remote_ts, remote_id) ==
    \/ InstantOf(remote_ts) > InstantOf(local_ts)
    \/ InstantOf(remote_ts) = InstantOf(local_ts) /\ remote_id > local_id

LastReplayed == replayed'[Len(replayed')]

HasMetadata(ev) == ev.entity_id \in DOMAIN StoreA.sync_entity_metadata

MetadataOf(ev) == StoreA.sync_entity_metadata[ev.entity_id]

\* C5 (as stated): with metadata present and both timestamps RFC 3339, the
\* event is applied iff its instant is later, or equal with a greater id.
C5_LaterInstantWins ==
    [][(/\ HasMetadata(LastReplayed)
        /\ parse_timestamp_millis(LastReplayed.client_timestamp).ok
        /\ parse_timestamp_millis(MetadataOf(LastReplayed).last_client_timestamp).ok)
       => (lastCall'.ret = "true") =
             LwwByInstant(MetadataOf(LastReplayed).last_client_timestamp,
                          MetadataOf(LastReplayed).last_event_id,
                          LastReplayed.client_timestamp,
                          LastReplayed.event_id)]_vars

\* C5: a remote event not yet in the applied log, for an entity with
\* metadata, is applied iff its timestamp is later in whole milliseconds (or
\* later as a string when one of the two is not RFC 3339), or the two are
\* equal and its event_id is greater; without metadata it is applied.  When
\* it is not applied, row and metadata stay and the event is logged.
C5_LwwRule ==
    [][/\ (lastCall'.ret = "true") =
             (~HasMetadata(LastReplayed)
              \/ LwwByMillisOrString(MetadataOf(LastReplayed).last_client_timestamp,
                                     MetadataOf(LastReplayed).last_event_id,
                                     LastReplayed.client_timestamp,
                                     LastReplayed.event_id))
       /\ lastCall'.ret = "false" =>
             /\ StoreA'.goals = StoreA.goals
             /\ StoreA'.sync_entity_metadata = StoreA.sync_entity_metadata
             /\ LastReplayed.event_id \notin DOMAIN StoreA.sync_applied_events
             /\ LastReplayed.event_id \in DOMAIN StoreA'.sync_applied_events]_vars

C5_Witness ==
    /\ Len(replayed) = 2
    /\ lastCall.ret = "true"
    /\ WellFormed(replayed[1]) /\ WellFormed(replayed[2])
    /\ MillisOf(replayed[1]) = MillisOf(replayed[2])
    /\ StrGreater(replayed[1].client_timestamp, replayed[2].client_timestamp)
    /\ replayed[2].event_id > replayed[1].event_id
    /\ StoreA.sync_entity_metadata["g1"].last_event_id = replayed[2].event_id


---------------------------------------------------------------------------
(* Claims on convergence of two devices *)

\* The relay events a device wrote
EventsOf(device_id) ==
    {k \in 1..Len(relay.log) : relay.log[k].device_id = device_id}

\* Both devices have pulled up to seq c, and whatever either of them wrote
\* locally is among the relay events up to c.
SyncedUpTo(c) ==
    \A s \in Stores :
        /\ get_cursor(db[s]) = c
        /\ \A i \in DOMAIN db[s].sync_outbox :
              \E k \in 1..c : relay.log[k].event_id = i

\* C1: two devices that have both pulled and replayed every relay event up
\* to seq c, with all their own local writes among these events, hold the
\* same rows.
C1_Convergence ==
    \A c \in 0..Len(relay.log) :
        SyncedUpTo(c) => db["A"].goals = db["B"].goals

\* The rows a device holds for an entity after the event was the last word
HoldsPayloadOf(s, ev) ==
    IF parse_event_operation(ev.event_type).op = "delete"
    THEN ev.entity_id \notin DOMAIN db[s].goals
    ELSE /\ ev.entity_id \in DOMAIN db[s].goals
         /\ db[s].goals[ev.entity_id].amount = ev.payload.value.fields["amount"]

MetadataHasTimestamp(s, ev) ==
    /\ ev.entity_id \in DOMAIN db[s].sync_entity_metadata
    /\ db[s].sync_entity_metadata[ev.entity_id].last_client_timestamp
          = ev.client_timestamp

\* Device A wrote the entity once after its creation had reached both, at t;
\* device B wrote it once, at a later t'.
LaterWriteOfB(a, b) ==
    /\ a \in EventsOf("devA") /\ b \in EventsOf("devB")
    /\ \A k \in EventsOf("devB") : k = b
    /\ \A k \in EventsOf("devA") : k = a \/ (k < a /\ k < b)
    /\ relay.log[a].entity_id = relay.log[b].entity_id
    /\ parse_timestamp_millis(relay.log[b].client_timestamp).millis
          > parse_timestamp_millis(relay.log[a].client_timestamp).millis

\* C2: when A wrote an entity at t and B wrote it at a later t', and both
\* have pushed and pulled until nothing is pending, both hold B's payload
\* and the entity metadata of both has last_client_timestamp = t'.
C2_LaterWriteWins ==
    \A a, b \in 1..Len(relay.log) :
        (LaterWriteOfB(a, b) /\ SyncedUpTo(Len(relay.log)))
            => \A s \in Stores :
                  /\ HoldsPayloadOf(s, relay.log[b])
                  /\ MetadataHasTimestamp(s, relay.log[b])


---------------------------------------------------------------------------
(* Claims on the cycle engine *)

SyncData(store) ==
    <<store.goals, store.sync_entity_metadata, store.sync_applied_events>>

\* C6: over any cycles and any relay responses, a pull response with a
\* next_cursor below the current cursor included, the stored cursor never
\* decreases.
C6_CursorNeverDecreases ==
    [][\A s \in Stores : get_cursor(db'[s]) >= get_cursor(db[s])]_vars

\* The events of a pull response that reach the batch, when the response
\* gets that far
BatchOf(r, response) ==
    DecodeEvents(response.events, topo.device[r], ctx[r].has_root_key, <<>>)

ReachesBatch(r, response) ==
    /\ response.kind = "ok"
    /\ ~(response.has_gc /\ ctx[r].local_cursor < response.gc_watermark)
    /\ BatchOf(r, response).status = "ok"

\* Applying the events one after the other, some event fails
RECURSIVE SomeEventFails(_, _)
SomeEventFails(conn, events) ==
    IF events = <<>> THEN FALSE
    ELSE LET r == apply_remote_event_lww_tx(conn, Head(events))
         IN  ~r.ok \/ SomeEventFails(r.conn, Tail(events))

\* C7: when applying an event of a pulled batch fails, no data row, no
\* metadata and no applied-log entry of the batch survives, the cursor keeps
\* its value and the cycle returns replay_error; the cursor changes only in
\* a pull step whose batch was applied without failure.
C7_BatchAllOrNothing ==
    [][\A r \in Runners :
          LET response == lastCall'.response
              store == StoreOf(r)
              after == db'[topo.store[r]]
              failed == /\ ReachesBatch(r, response)
                        /\ SomeEventFails(store, BatchOf(r, response).events)
          IN  /\ (lastCall'.op = "pull_events" /\ lastCall'.runner = r /\ failed)
                    => /\ SyncData(after) = SyncData(store)
                       /\ after.sync_cursor = store.sync_cursor
                       /\ pc'[r] = "idle"
                       /\ result'[r].status = "replay_error"
              /\ (after.sync_cursor # store.sync_cursor /\ lastCall'.runner = r)
                    => /\ lastCall'.op = "pull_events"
                       /\ ReachesBatch(r, response)
                       /\ ~SomeEventFails(store, BatchOf(r, response).events)
                       /\ get_cursor(after) = response.next_cursor
      ]_vars

\* A batch whose first event applies and whose second fails was pulled, the
\* cycle returned replay_error, and the first event left nothing behind.
C7_Witness ==
    /\ lastCall.op = "pull_events"
    /\ result[lastCall.runner].status = "replay_error"
    /\ LET r == lastCall.runner
           events == DecodeEvents(lastCall.response.events, topo.device[r], TRUE, <<>>)
       IN  /\ events.status = "ok"
           /\ Len(events.events) = 2
           /\ apply_remote_event_lww_tx(StoreA, events.events[1]).ok
           /\ apply_remote_event_lww_tx(StoreA, events.events[1]).value
           /\ SomeEventFails(StoreA, events.events)
           /\ events.events[1].event_id \notin DOMAIN StoreA.sync_applied_events
           /\ StoreA.goals = EmptyFn

SameProcess(r, q) == r # q /\ topo.proc[r] = topo.proc[q]

\* C8: within one process at most one cycle is between taking the mutex and
\* returning; a caller that finds a cycle running stays waiting, and when it
\* goes on it starts the cycle from its first step.
C8_OneCycleAtATime ==
    [][\A r, q \in Runners :
          SameProcess(r, q)
              => /\ ~(InCycle(r) /\ InCycle(q))
                 /\ (pc[r] = "waiting" /\ InCycle(q)) => pc'[r] = "waiting"
                 /\ (pc[r] = "waiting" /\ pc'[r] # "waiting")
                       => /\ lastCall'.op = "begin" /\ lastCall'.runner = r
                          /\ pc'[r] \in {"cursor", "idle"}
                          /\ pc'[r] = "cursor"
                                => ctx'[r].lock_version
                                     = StoreOf(r).sync_engine_state.lock_version + 1
      ]_vars

\* The manual trigger waits while the background loop is in its pull loop
C8_Witness ==
    /\ pc["r1"] = "pull"
    /\ pc["r2"] = "waiting"
    /\ SameProcess("r1", "r2")
    /\ mutex[topo.proc["r1"]] = "r1"

\* C9: from the moment another process has acquired the cycle lock, the
\* cycle that held it writes nothing to the cursor and returns preempted.
C9_PreemptedCycleStops ==
    [][\A r \in Runners :
          (/\ InCycle(r)
           /\ lastCall'.runner = r
           /\ ~verify_cycle_lock(StoreOf(r), ctx[r].lock_version))
              => /\ db'[topo.store[r]].sync_cursor = StoreOf(r).sync_cursor
                 /\ pc'[r] = "idle" => result'[r].status = "preempted"
      ]_vars

\* C10: a cursor response with gc_watermark above the local cursor ends the
\* cycle with stale_cursor and needs_bootstrap, before any push or pull and
\* with the cursor unchanged; with the local cursor at the watermark, or no
\* watermark reported, the cycle is not ended as stale.
C10_StaleCursorCheck ==
    [][\A r \in Runners :
          (lastCall'.op = "get_events_cursor" /\ lastCall'.runner = r
              /\ lastCall'.response.ok)
              => LET response == lastCall'.response
                     stale == response.has_gc
                                /\ response.gc_watermark > ctx[r].local_cursor
                     after == db'[topo.store[r]]
                 IN  /\ stale
                          => /\ pc'[r] = "idle"
                             /\ result'[r].status = "stale_cursor"
                             /\ result'[r].needs_bootstrap
                             /\ result'[r].pushed_count = 0
                             /\ result'[r].pulled_count = 0
                             /\ after.sync_outbox = StoreOf(r).sync_outbox
                             /\ after.sync_cursor = StoreOf(r).sync_cursor
                             /\ SyncData(after) = SyncData(StoreOf(r))
                             /\ relay' = relay
                     /\ ~stale
                          => ~(pc'[r] = "idle" /\ result'[r].status = "stale_cursor")
      ]_vars

\* A cycle with an event to push, whose local cursor is behind the
\* watermark the relay reports, has ended as stale
C10_Witness ==
    /\ lastCall.op = "get_events_cursor"
    /\ lastCall.response.ok
    /\ lastCall.response.has_gc
    /\ lastCall.response.gc_watermark > get_cursor(StoreA)
    /\ get_cursor(StoreA) > 0
    /\ result[lastCall.runner].status = "stale_cursor"
    /\ result[lastCall.runner].needs_bootstrap
    /\ \E i \in DOMAIN StoreA.sync_outbox : IsPending(StoreA.sync_outbox[i], TRUE)

---------------------------------------------------------------------------
(* Claims on recovery, the outbox and the push *)

\* C11: a device whose cycle returned stale_cursor, with a snapshot on the
\* relay that covers the collected part of the log, is brought back by the
\* bootstrap: a later cycle returns ok; whether the device completed a
\* bootstrap before makes no difference.
C11_StaleCursorRecovery ==
    (result["r1"].status = "stale_cursor") ~> (result["r1"].status = "ok")

\* C12: with sync configured, a repository write that commits a change of a
\* goal leaves exactly one new outbox event, for that row and operation, and
\* a write that fails at any statement, the outbox insert included, leaves
\* the database as it was: neither the row change nor an event persists.
C12_AtomicOutbox ==
    [][lastCall'.op = "repository_write" /\ lastCall'.response.configured =>
        LET res == lastCall'.response
            before == db["A"].sync_outbox
            after == db'["A"].sync_outbox
        IN  /\ res.ok /\ res.affected =>
                /\ DOMAIN after = DOMAIN before \cup {res.event_id}
                /\ res.event_id \notin DOMAIN before
                /\ after[res.event_id].entity_id = res.entity_id
                /\ after[res.event_id].op = res.op
                /\ after[res.event_id].status = "pending"
                /\ \A i \in DOMAIN before : after[i] = before[i]
            /\ ~(res.ok /\ res.affected) => db' = db
            /\ db'["A"].goals # db["A"].goals => res.ok /\ res.affected]_vars

\* A delete that failed at the outbox insert after an earlier write went
\* through: the row is still there and the outbox holds the earlier event only
C12_Witness ==
    /\ lastCall.op = "repository_write"
    /\ lastCall.response.configured
    /\ lastCall.response.op = "delete"
    /\ lastCall.response.fault = "outbox"
    /\ ~lastCall.response.ok
    /\ "g1" \in DOMAIN db["A"].goals
    /\ Cardinality(DOMAIN db["A"].sync_outbox) = 1

\* The answer to a push request, as the step that handled it sees it
PushAnswered(kind) ==
    lastCall'.op = "push_events" /\ lastCall'.response.kind = kind

BatchIds == SeqRange(ctx["r1"].push_event_ids)

\* C13: after a push that succeeds exactly the events the relay lists as
\* accepted or duplicate are sent (sent flag set, retry time and error
\* cleared), last_push_at is set, and an event of the batch in neither list
\* is still pending and is offered again by the next cycle.
C13_SuccessfulPush ==
    [][PushAnswered("ok") =>
        LET sent_ids == lastCall'.response.accepted \cup lastCall'.response.duplicate
            before == db["A"].sync_outbox
            after == db'["A"].sync_outbox
        IN  /\ DOMAIN after = DOMAIN before
            /\ \A i \in DOMAIN before :
                  IF i \in sent_ids
                  THEN /\ after[i].status = "sent"
                       /\ after[i].sent
                       /\ after[i].next_retry_in = 0
                       /\ after[i].last_error_code = ""
                  ELSE after[i] = before[i]
            /\ \A i \in BatchIds \ sent_ids :
                  /\ after[i].status = "pending"
                  /\ ~after[i].sent
                  /\ i \in SeqRange(list_pending_outbox(db'["A"], TRUE))
            /\ db'["A"].sync_engine_state.last_push_at]_vars

\* A push of three events answered with one accepted, one duplicate and one
\* left out, where a sent event had been retried before
C13_Witness ==
    /\ lastCall.op = "push_events"
    /\ lastCall.response.kind = "ok"
    /\ lastCall.response.accepted # {}
    /\ lastCall.response.duplicate \ lastCall.response.accepted # {}
    /\ \E i \in DOMAIN db["A"].sync_outbox :
          /\ db["A"].sync_outbox[i].status = "sent"
          /\ db["A"].sync_outbox[i].retry_count > 0
    /\ \E i \in DOMAIN db["A"].sync_outbox :
          /\ db["A"].sync_outbox[i].status = "pending"
          /\ i \notin lastCall.response.accepted \cup lastCall.response.duplicate

\* C14: a push answered with KEY_VERSION_MISMATCH leaves every event of the
\* batch dead with last_error_code key_version_mismatch, the cycle returns
\* key_version_mismatch without pulling and without a retry hint, and after
\* a cycle returned key_version_mismatch no later cycle sends a push (the
\* device is not paired again in any behaviour followed here).
C14_KeyVersionMismatch ==
    [][/\ PushAnswered("key_version_mismatch") =>
            /\ \A i \in BatchIds :
                  /\ db'["A"].sync_outbox[i].status = "dead"
                  /\ db'["A"].sync_outbox[i].last_error_code = "key_version_mismatch"
            /\ pc'["r1"] = "idle"
            /\ result'["r1"].status = "key_version_mismatch"
            /\ result'["r1"].pulled_count = 0
            /\ db'["A"].sync_engine_state.next_retry_in = 0
       /\ result["r1"].status = "key_version_mismatch" =>
            lastCall'.op # "push_events"]_vars

\* C15: an error of a push is Permanent when it is an API error with a
\* status other than 401, 403, 408, 409, 423, 425, 429 and 5xx, or a JSON or
\* invalid-request error; after such a failure every event of the batch is
\* dead, the cycle returns push_error and no retry hint is written to the
\* engine state.
C15_PermanentPushFailure ==
    [][/\ \A err \in PushErrors :
            retry_class(err) = "permanent" <=>
                \/ /\ err.variant = "api"
                   /\ err.status \notin {401, 403, 408, 409, 423, 425, 429}
                   /\ err.status \notin 500..599
                \/ err.variant \in {"json", "invalid_request"}
       /\ PushAnswered("permanent") =>
            /\ \A i \in BatchIds : db'["A"].sync_outbox[i].status = "dead"
            /\ pc'["r1"] = "idle"
            /\ result'["r1"].status = "push_error"
            /\ db'["A"].sync_engine_state.next_retry_in = 0]_vars

\* The largest retry_count among the rows of the batch, read from the outbox
LargestRetryCount ==
    CHOOSE m \in {db["A"].sync_outbox[i].retry_count : i \in BatchIds} :
        \A i \in BatchIds : db["A"].sync_outbox[i].retry_count <= m

Min(a, b) == IF a < b THEN a ELSE b

\* The push failed with the given status and delay: the rows of the batch
\* are pending with one more retry and that delay, list_pending does not
\* return them while the delay runs, and the cycle returns the status with
\* the delay as hint.
RetryScheduled(status, delay) ==
    /\ \A i \in BatchIds :
          /\ db'["A"].sync_outbox[i].status = "pending"
          /\ db'["A"].sync_outbox[i].retry_count = db["A"].sync_outbox[i].retry_count + 1
          /\ db'["A"].sync_outbox[i].next_retry_in = delay
          /\ i \notin SeqRange(list_pending_outbox(db'["A"], FALSE))
    /\ pc'["r1"] = "idle"
    /\ result'["r1"].status = status
    /\ db'["A"].sync_engine_state.next_retry_in = delay

\* C16: after a Retryable failure of a push every event of the batch stays
\* pending with retry_count one higher and a delay of 5 * 2^min(m, 8) seconds,
\* m the largest retry_count of the batch before the failure, never more than
\* 1280 s; the cycle returns push_error with that delay as hint and
\* list_pending does not return the events while the delay runs.  After a
\* ReauthRequired failure the delay is 30 s and the status auth_error.
C16_RetryablePushFailure ==
    [][/\ \A n \in 0..MaxRetries :
            /\ backoff_seconds(n) = 5 * 2 ^ Min(n, 8)
            /\ backoff_seconds(n) <= 1280
       /\ PushAnswered("retryable") =>
            RetryScheduled("push_error", 5 * 2 ^ Min(LargestRetryCount, 8))
       /\ PushAnswered("reauth_required") =>
            RetryScheduled("auth_error", 30)]_vars

\* A batch of an event that failed twice before and one that failed once
\* fails again: both wait 20 s
C16_Witness ==
    /\ lastCall.op = "push_events"
    /\ lastCall.response.kind = "retryable"
    /\ \E i, j \in DOMAIN db["A"].sync_outbox :
          /\ db["A"].sync_outbox[i].retry_count = 3
          /\ db["A"].sync_outbox[j].retry_count = 2
          /\ db["A"].sync_outbox[i].next_retry_in = 20
          /\ db["A"].sync_outbox[j].next_retry_in = 20
    /\ result["r1"].status = "push_error"
    /\ db["A"].sync_engine_state.next_retry_in = 20

\* The event type names an entity of the catalog and a known operation
SupportedType(event_type) ==
    event_type.entity \in {"goal", "snapshot"} /\ event_type.op \in Ops

\* The replay loop of runner r comes to an event of another device, not of
\* the snapshot entity, whose type is not supported
MeetsUnsupported(r, response) ==
    /\ response.kind = "ok"
    /\ ~StaleCursor(ctx[r].local_cursor, response)
    /\ \E k \in 1..Len(response.events) :
          /\ response.events[k].device_id # topo.device[r]
          /\ response.events[k].entity # "snapshot"
          /\ ~SupportedType(response.events[k].event_type)
          /\ DecodeEvents(SubSeq(response.events, 1, k - 1), topo.device[r],
                          ctx[r].has_root_key, <<>>).status = "ok"

\* C17: when the replay loop meets an event of another device, not of the
\* snapshot entity, whose event_type does not name an entity of the catalog
\* together with a known operation (invoice.create.v1), the cycle returns
\* replay_blocked with a retry hint of six hours, no event of the batch is
\* applied and the cursor keeps its value.
C17_ReplayBlocked ==
    [][\A r \in Runners :
          (/\ lastCall'.op = "pull_events"
           /\ lastCall'.runner = r
           /\ MeetsUnsupported(r, lastCall'.response))
          => /\ pc'[r] = "idle"
             /\ result'[r].status = "replay_blocked"
             /\ db'[topo.store[r]].sync_engine_state.next_retry_in = 6 * 60 * 60
             /\ SyncData(db'[topo.store[r]]) = SyncData(StoreOf(r))
             /\ db'[topo.store[r]].sync_cursor = StoreOf(r).sync_cursor]_vars

\* C18: the events of a device reach the relay in the order of created_at:
\* whenever a cycle sends a push request, no event created before an event
\* of the request is still pending outside it, an event that waits for its
\* next_retry_at included.
C18_PushOrder ==
    [][lastCall'.op = "push_events" =>
        \A i \in BatchIds :
            \A j \in DOMAIN db["A"].sync_outbox \ BatchIds :
                ~(/\ db["A"].sync_outbox[j].status = "pending"
                  /\ db["A"].sync_outbox[j].created_at
                        < db["A"].sync_outbox[i].created_at)]_vars

---------------------------------------------------------------------------
(* Claims on the snapshot restore *)

Restored == lastCall'.op = "restore"

\* The control plane that a restore resets
ControlPlane(store) ==
    <<store.sync_outbox, store.sync_entity_metadata, store.sync_applied_events>>

\* C19: after restore_snapshot_tables_from_file succeeds each listed table
\* holds exactly the rows of the snapshot (on the columns the two tables
\* share), the cursor is the one given, the outbox, the entity metadata and
\* the applied-event log are empty and needs_bootstrap is false; the same
\* restore run again succeeds and leaves the same state.
C19_RestoreSuccess ==
    [][Restored /\ lastCall'.response.ok =>
        LET req == lastCall'.response
            source == req.image.tables["goals"]
            after == db'["A"]
            again == restore_snapshot_tables_from_file(after, req.image, req.tables,
                                                       req.cursor_value)
        IN  /\ DOMAIN after.goals = DOMAIN source.rows
            /\ \A k \in DOMAIN source.rows :
                  \A c \in DataColumns \cap source.columns :
                      after.goals[k][c] = source.rows[k][c]
            /\ after.sync_cursor.present
            /\ get_cursor(after) = req.cursor_value
            /\ ControlPlane(after) = <<EmptyFn, EmptyFn, EmptyFn>>
            /\ ~needs_bootstrap(after)
            /\ again.ok
            /\ again.conn = after]_vars

\* A restore of an image with a row and more columns than the table has,
\* into a store on which events had been replayed
C19_Witness ==
    /\ lastCall.op = "restore"
    /\ lastCall.response.ok
    /\ "legacy" \in lastCall.response.image.tables["goals"].columns
    /\ lastCall.response.cursor_value = 1
    /\ db["A"].goals = [k \in {"g1"} |-> [amount |-> "200"]]
    /\ db["A"].sync_engine_state.present
    /\ won # EmptyFn

\* C20: when restore_snapshot_tables_from_file fails (the file is no
\* database image, a table is outside the catalog, a table has no compatible
\* columns) the cursor, the syncable tables, the outbox, the entity metadata
\* and the applied-event log keep their values; in any restore the cursor
\* change and the reset of the control plane happen together or not at all.
C20_RestoreFailure ==
    [][Restored =>
        /\ ~lastCall'.response.ok => db' = db
        /\ \/ db' = db
           \/ /\ get_cursor(db'["A"]) = lastCall'.response.cursor_value
              /\ ControlPlane(db'["A"]) = <<EmptyFn, EmptyFn, EmptyFn>>]_vars

\* A restore of an image whose table shares no column failed on a store
\* with a pending event and applied events: both are still there
C20_Witness ==
    /\ lastCall.op = "restore"
    /\ ~lastCall.response.ok
    /\ lastCall.response.image.sqlite
    /\ lastCall.response.tables = {"goals"}
    /\ db["A"].sync_outbox # EmptyFn
    /\ db["A"].sync_applied_events # EmptyFn
    /\ db["A"].sync_entity_metadata # EmptyFn

---------------------------------------------------------------------------
(* Claims on the snapshot upload *)

\* The step is a caller's upload_snapshot of runner r.
UploadCalled(r) ==
    /\ calls'[r] # calls[r]
    /\ lastCall'.op = "upload_snapshot"
    /\ lastCall'.runner = r

\* C21: upload_snapshot with an empty payload, a size header of 0 and the
\* checksum of the empty payload fails with InvalidRequest and sends no
\* HTTP request.
C21_EmptySnapshotUpload ==
    [][\A r \in Runners :
          /\ UploadCalled(r)
          /\ lastCall'.response.payload_len = 0
          /\ lastCall'.response.size_bytes = 0
          /\ lastCall'.response.checksum
          => /\ ~lastCall'.response.ok
             /\ lastCall'.outcome.status = "InvalidRequest"
             /\ pc'[r] = "idle"]_vars

\* The step sends an HTTP attempt of the upload of runner r.
AttemptSent(r) ==
    /\ lastCall'.op = "upload_attempt"
    /\ lastCall'.runner = r
    /\ ctx'[r].attempt = ctx[r].attempt + 1

\* C22: every HTTP attempt of one upload_snapshot call carries the same
\* X-Snapshot-Event-Id, the caller's id when there is one and else an id
\* generated before the first attempt, and its Content-Length equals its
\* X-Snapshot-Size-Bytes; retries do not change that.
C22_StableIdempotencyKey ==
    [][\A r \in Runners :
          /\ UploadCalled(r) /\ lastCall'.response.ok
                /\ lastCall'.response.event_id # "none"
             => ctx'[r].headers.event_id = lastCall'.response.event_id
          /\ AttemptSent(r)
             => /\ lastCall'.response.event_id # "none"
                /\ lastCall'.response.event_id = ctx[r].headers.event_id
                /\ lastCall'.response.event_id = ctx'[r].first_event_id
                /\ lastCall'.response.content_length = lastCall'.response.size_bytes
                /\ lastCall'.response.content_length = lastCall'.response.body_len
                /\ ctx'[r].headers = ctx[r].headers]_vars

\* A third attempt, after two retries, of an upload under the caller's id.
C22_Witness ==
    /\ lastCall.op = "upload_attempt"
    /\ lastCall.response.attempt = 3
    /\ lastCall.response.event_id = "u1"
    /\ ctx[lastCall.runner].first_event_id = "u1"

\* The keys of the uploads that are in progress.
UploadsInProgress == {ctx[r].key : r \in {q \in Runners : pc[q] \in {"attempt", "sent"}}}

\* C23: the process-wide set holds the key (device_id, event_id) exactly
\* while an upload with that key is in progress; an upload whose key is in
\* the set fails at once with InvalidRequest and sends no HTTP request; the
\* key leaves the set when the upload ends, whatever its outcome.
C23_InFlightDedup ==
    [][/\ runtime'.in_flight = UploadsInProgress'
       /\ \A r \in Runners :
             /\ UploadCalled(r)
             /\ <<topo.device[r], lastCall'.response.event_id>> \in runtime.in_flight
             => /\ ~lastCall'.response.ok
                /\ lastCall'.outcome.status = "InvalidRequest"
                /\ pc'[r] = "idle"
                /\ runtime'.in_flight = runtime.in_flight]_vars

\* The step takes the answer to an HTTP attempt of the upload of runner r.
Answered(r) ==
    /\ pc[r] = "sent"
    /\ lastCall'.op = "upload_response"
    /\ lastCall'.runner = r

\* The answer is one the upload may try again after.
MayRetry(response) ==
    \/ response.kind = "status"
          /\ (response.status \in {408, 429} \/ response.status \in 500..599)
    \/ response.kind \in {"timeout", "connect", "request", "body"}

\* C24: an upload makes at most 5 HTTP attempts and always ends; it makes a
\* further attempt only after 408, 429, a 5xx status or a transient
\* transport error; any other error status is returned after the attempt
\* that got it; after the 5th failed attempt that attempt's error is
\* returned.
C24_BoundedUploadRetry ==
    /\ [][\A r \in Runners :
             /\ ctx'[r].attempt <= 5
             /\ AttemptSent(r) /\ ctx[r].attempt >= 1 => pc[r] = "attempt"
             /\ Answered(r) =>
                   LET response == lastCall'.response
                       failed == ~(response.kind = "status" /\ response.status = 200)
                   IN  /\ pc'[r] = "attempt"
                            <=> failed /\ MayRetry(response) /\ ctx[r].attempt < 5
                       /\ pc'[r] \in {"attempt", "idle"}
                       /\ pc'[r] = "idle" /\ failed
                            => /\ lastCall'.attempts = ctx[r].attempt
                               /\ ctx[r].generation
                                    \/ /\ lastCall'.outcome.error = response
                                       /\ lastCall'.outcome.status =
                                             IF response.kind = "status"
                                               THEN "Api" ELSE "Http"]_vars
    /\ \A r \in Runners : pc[r] \in {"attempt", "sent"} ~> pc[r] = "idle"

\* An upload has returned the 503 of its fifth attempt.
C24_Witness ==
    /\ lastCall.op = "upload_response"
    /\ pc[lastCall.runner] = "idle"
    /\ lastCall.attempts = 5
    /\ lastCall.response = [kind |-> "status", status |-> 503]
    /\ lastCall.outcome.status = "Api"

\* C25: once cancellation is requested while a snapshot generation or its
\* upload is in progress, no further HTTP attempt is started for it and it
\* ends with the cancelled outcome, not with an error; another generation
\* that starts meanwhile does not lose the request.
C25_UploadCancellation ==
    [][\A r \in Runners :
          ctx[r].cancel_requested /\ pc[r] # "idle"
          => /\ ~AttemptSent(r)
             /\ pc'[r] = "idle" /\ lastCall'.op # "abort"
                  => lastCall'.outcome.status = "cancelled"]_vars

---------------------------------------------------------------------------
(* Claims on the payload of a replayed event *)

\* The step replays a create, update or request whose payload has a key
\* that is no column of the table or a primary key that is not entity_id.
ReplaysBadPayload ==
    /\ lastCall'.op = "replay"
    /\ lastCall'.event.op \in {"create", "update", "request"}
    /\ LET fields == lastCall'.event.payload.fields
       IN  \/ \E k \in DOMAIN fields : k \notin {"id", "amount"}
           \/ "id" \in DOMAIN fields /\ fields["id"] # lastCall'.event.entity_id

\* The event of the step is compared and wins: it is not in the applied
\* log and the entity has no metadata or older metadata.
ReplayedEventWins ==
    LET ev == lastCall'.event
        log == db["A"].sync_applied_events
        metadata == db["A"].sync_entity_metadata
    IN  /\ ev.event_id \notin DOMAIN log
        /\ ev.entity_id \in DOMAIN metadata
             => should_apply_lww(metadata[ev.entity_id].last_client_timestamp,
                                 metadata[ev.entity_id].last_event_id,
                                 ev.client_timestamp, ev.event_id)

\* C26: replaying a create, update or request event that is compared and
\* wins, and whose payload has a key that is no column of the table or a
\* primary key other than its entity_id, fails and changes nothing: no
\* data row, no entity metadata, no entry of the applied-event log.
C26_PermissionSafeReplay ==
    [][ReplaysBadPayload /\ ReplayedEventWins
       => lastCall'.ret = "error" /\ db' = db]_vars

\* C26 as stated, for every event with such a payload.
C26_EveryBadPayloadFails ==
    [][ReplaysBadPayload => lastCall'.ret = "error" /\ db' = db]_vars

\* A payload with an unknown column was refused by a store that holds a
\* row, its metadata and an applied event.
C26_Witness ==
    /\ lastCall.op = "replay"
    /\ lastCall.ret = "error"
    /\ lastCall.event.op = "update"
    /\ "nonexistent_column" \in DOMAIN lastCall.event.payload.fields
    /\ "g1" \in DOMAIN db["A"].goals
    /\ db["A"].sync_entity_metadata # EmptyFn
    /\ db["A"].sync_applied_events # EmptyFn

---------------------------------------------------------------------------
(* Claims on the pairing *)

PairingOps ==
    {"create", "claim", "get", "approve", "complete", "messages", "confirm", "cancel"}

\* C27: no request that the issuer or the claimer sends to the relay
\* (create, claim, approve, complete, confirm, cancel, and the polls)
\* carries root_key in plaintext: the key travels only in the key bundle of
\* complete_pairing, encrypted under the secret derived from the two
\* ephemeral keys, and the relay never reads it.
C27_PairingConfidentiality ==
    /\ RootKey \notin relay.knows
    /\ lastCall.op \in PairingOps
         => \A f \in DOMAIN lastCall.response.body :
               RootKey \in lastCall.response.body[f].carries
               => /\ lastCall.op = "complete"
                  /\ f = "encrypted_key_bundle"
                  /\ lastCall.response.body[f].under = {"issuer_pub", "claimer_pub"}

\* The claimer has confirmed a pairing whose bundle gave it the root key.
C27_Witness ==
    /\ lastCall.op = "confirm"
    /\ relay.session.state = "confirmed"
    /\ RootKey \in relay.session.bundle.carries
    /\ ctx["r2"].identity = ctx["r1"].identity
    /\ ctx["r2"].identity.root_key = RootKey

---------------------------------------------------------------------------
(* Claims on the preparation of the push *)

\* Every event of the push request of the cycle c over the store is the
\* ciphertext of its outbox row's payload under the DEK of the row's
\* payload_key_version.
BatchEncrypted(store, c) ==
    LET request == PushRequest(store, c, "devA")
    IN  /\ Len(request) = Len(c.push_event_ids)
        /\ \A k \in 1..Len(request) :
              LET row == store.sync_outbox[request[k].event_id]
              IN  /\ request[k].payload.kind = "cipher"
                  /\ request[k].payload.value = row.payload
                  /\ request[k].payload.dek = row.payload_key_version
                  /\ row.payload_key_version >= 1

\* C28: a push request is sent only when every pending event of the batch
\* was encrypted under the DEK of its payload_key_version; when the
\* encryption of an event fails (the root key is missing) the cycle returns
\* push_prepare_error, sends no push request and changes no outbox row.
C28_EncryptBeforePush ==
    [][/\ pc'["r1"] = "push" /\ pc["r1"] # "push"
          => ctx'["r1"].has_root_key /\ BatchEncrypted(db'["A"], ctx'["r1"])
       /\ lastCall'.op = "push_events"
          => ctx["r1"].has_root_key /\ BatchEncrypted(db["A"], ctx["r1"])
       /\ /\ lastCall'.op = "get_events_cursor"
          /\ ~ctx["r1"].has_root_key
          /\ \E i \in DOMAIN db["A"].sync_outbox :
                /\ db["A"].sync_outbox[i].status = "pending"
                /\ ~db["A"].sync_outbox[i].sent
          => /\ result'["r1"].status = "push_prepare_error"
             /\ pc'["r1"] = "idle"
             /\ db'["A"].sync_outbox = db["A"].sync_outbox]_vars

\* The second cycle has pushed rows of key versions 1 and 2 in one batch,
\* the first having failed to encrypt for want of the root key.
C28_Witness ==
    /\ lastCall.op = "push_events"
    /\ calls["r1"] = 2
    /\ \E i, j \in DOMAIN db["A"].sync_outbox :
          /\ db["A"].sync_outbox[i].sent /\ db["A"].sync_outbox[i].payload_key_version = 1
          /\ db["A"].sync_outbox[j].sent /\ db["A"].sync_outbox[j].payload_key_version = 2
    /\ result["r1"].status = "push_prepare_error"

---------------------------------------------------------------------------
(* Claims on the outcome of a cycle *)

\* C29: every return of run_sync_cycle to its caller, a storage error while
\* the lock is acquired included, comes after a write of the engine state
\* whose last_cycle_status is the returned status.
C29_CycleOutcomeRecorded ==
    [][\A r \in Runners :
          pc[r] # "idle" /\ pc'[r] = "idle"
          => /\ db'[topo.store[r]].sync_engine_state.present
             /\ db'[topo.store[r]].sync_engine_state.last_cycle_status
                   = result'[r].status]_vars

---------------------------------------------------------------------------
(* Claims on the background task *)

\* C30: under any interleaving of starts and stops at most one background
\* task is alive; a start spawns nothing without an identity or with a live
\* task, and replaces a finished task; a stop leaves the handle empty and
\* the aborted task starts no cycle afterwards.
C30_BackgroundTaskLifecycle ==
    [][LET handle == runtime.background_task
           started == lastCall'.op = "ensure_started"
           stopped == lastCall'.op = "ensure_stopped"
       IN  /\ Cardinality(LiveTasks(runtime')) <= 1
           /\ started /\ (~lastCall'.identity \/ handle \in LiveTasks(runtime))
                => runtime' = runtime
           /\ started /\ lastCall'.identity /\ handle # NoTask
                       /\ runtime.tasks[handle].state = "finished"
                => /\ runtime'.background_task \notin {NoTask, handle}
                   /\ LiveTasks(runtime') = {runtime'.background_task}
           /\ stopped
                => /\ runtime'.background_task = NoTask
                   /\ LiveTasks(runtime') = {}
           /\ \A t \in 1..Len(runtime.tasks) :
                  runtime.tasks[t].state = "aborted"
                  => runtime'.tasks[t] = runtime.tasks[t]]_vars

\* A task that was aborted in its cycle, a task that ended by itself and
\* was replaced, and the replacement in its second cycle
C30_Witness ==
    /\ Len(runtime.tasks) = 3
    /\ runtime.background_task = 3
    /\ \E t \in 1..2 : /\ runtime.tasks[t].state = "aborted"
                        /\ runtime.tasks[t].cycles >= 1
    /\ \E t \in 1..2 : runtime.tasks[t].state = "finished"
    /\ runtime.tasks[3].state = "cycle"
    /\ runtime.tasks[3].cycles = 2

\* C31: the loop stops after the 5th consecutive not_ready or config_error
\* cycle, any other status or an error resetting the count, and it stops
\* after a cycle once the stored identity is that of a revoked device,
\* whatever the status of the cycle; otherwise it goes on to sleep.
C31_SchedulerStopConditions ==
    [][\A t \in 1..Len(runtime.tasks) :
          /\ lastCall'.op \in LoopStatuses
          /\ lastCall'.task = t
          /\ runtime.tasks[t].state = "cycle"
          => LET counted == lastCall'.op \in {"not_ready", "config_error"}
                 revoked == ~lastCall'.identity
                 before == runtime.tasks[t].consecutive_not_ready
                 after == runtime'.tasks[t].consecutive_not_ready
             IN  /\ after = IF counted THEN before + 1 ELSE 0
                 /\ runtime'.tasks[t].state =
                       IF revoked \/ after >= MaxConsecutiveNotReady
                       THEN "finished" ELSE "sleep"]_vars

---------------------------------------------------------------------------
(* Claims on the abort of a running cycle *)

\* Events of a pull response that the store has not applied before
NewInResponse(store, response) ==
    {k \in 1..Len(response.events) :
        response.events[k].event_id \notin DOMAIN store.sync_applied_events}

\* C32: when the background task is aborted at an await point of a running
\* cycle, no outbox event is sent that the relay does not hold, the cursor
\* covers only events of other devices that were applied, the cycle mutex
\* is released, and the pull of a later cycle applies no event that the
\* applied log already holds.
C32_AbortSafety ==
    [][/\ \A i \in DOMAIN db'["A"].sync_outbox :
              db'["A"].sync_outbox[i].status = "sent" => i \in LogIds(relay'.log)
       /\ \A k \in 1..Len(relay'.log) :
              /\ relay'.log[k].seq <= get_cursor(db'["A"])
              /\ relay'.log[k].device_id # topo.device["r1"]
              => relay'.log[k].event_id \in DOMAIN db'["A"].sync_applied_events
       /\ lastCall'.op = "abort"
              => /\ mutex'[topo.proc["r1"]] = NoRunner
                 /\ pc'["r1"] = "idle"
       /\ lastCall'.op = "pull_events" /\ lastCall'.response.kind = "ok"
              => (IF pc'["r1"] = "idle" THEN result'["r1"].pulled_count
                  ELSE ctx'["r1"].pulled_count) - ctx["r1"].pulled_count
                   <= Cardinality(NewInResponse(db["A"], lastCall'.response))]_vars

\* The task was aborted between the replay of a batch and the write of the
\* cursor: the events are applied and the cursor is behind them
C32_Witness ==
    /\ lastCall.op = "abort"
    /\ lastCall.response = "batch_applied"
    /\ DOMAIN db["A"].sync_applied_events # {}
    /\ get_cursor(db["A"]) < Len(relay.log)
    /\ mutex[topo.proc["r1"]] = NoRunner

---------------------------------------------------------------------------
(* Claims on the snapshot policy *)

\* Whether the interval has passed since the latest upload that succeeded
IntervalPassed ==
    relay.snapshot.present
    => relay.now - relay.snapshot.at >= DEVICE_SYNC_SNAPSHOT_INTERVAL_SECS

\* C33: after a cycle the loop calls the snapshot generation iff the cycle
\* returned ok and the cursor is 1000 or more ahead of last_uploaded_cursor
\* or 86400 s have passed since the latest upload that succeeded; the policy
\* state changes only with an upload that succeeded, and the result of the
\* cycle is what the cycle returned.
C33_SnapshotPolicy ==
    [][lastCall'.op = "loop"
       => /\ lastCall'.attempted
                <=> /\ lastCall'.status = "ok"
                    /\ \/ get_cursor(db'["A"]) - runtime.snapshot_policy.last_uploaded_cursor
                             >= DEVICE_SYNC_SNAPSHOT_EVENT_THRESHOLD
                       \/ IntervalPassed
          /\ runtime'.snapshot_policy # runtime.snapshot_policy
                => lastCall'.attempted /\ lastCall'.outcome = "uploaded"
          /\ result'["r1"].status = lastCall'.status]_vars

---------------------------------------------------------------------------
(* Claims on the snapshot bootstrap *)

\* A bootstrap that got as far as the latest snapshot of the relay
BootstrapReachedSnapshot ==
    /\ lastCall'.op = "bootstrap_snapshot"
    /\ lastCall'.response.checked
    /\ lastCall'.response.present

\* C34: a snapshot uploaded with payload_key_version v is decrypted with the
\* DEK of v: a device that holds the root key and gets the bytes and the
\* checksums as they were uploaded restores the image, whatever the
\* key_version of its own identity.
C34_SnapshotKeyVersionRoundTrip ==
    [][/\ BootstrapReachedSnapshot
       /\ lastCall'.response.answer =
             [schema_version |-> LOCAL_SCHEMA_VERSION, metadata |-> "same",
              header |-> "stored", damaged |-> FALSE]
       => /\ lastCall'.response.status = "applied"
          /\ get_cursor(db'["A"]) = relay.snapshot.oplog_seq
          /\ DOMAIN db'["A"].goals
                = DOMAIN relay.snapshot.upload.payload.image.tables["goals"].rows]_vars

\* The cursor, the syncable table and the control plane of a store
RestoreTargets(store) ==
    <<store.sync_cursor, store.goals, store.sync_outbox,
      store.sync_entity_metadata, store.sync_applied_events>>

\* C35: the bootstrap restores nothing and leaves the cursor, the syncable
\* table and the control plane as they were when the schema version of the
\* latest snapshot is above the local one, or when the checksum of the
\* downloaded bytes differs from the checksum header or from a checksum
\* that the metadata carries.
C35_BootstrapIntegrity ==
    [][/\ BootstrapReachedSnapshot
       /\ LET answer == lastCall'.response.answer
               actual == sha256_checksum(AnswerBlob(answer))
           IN  \/ answer.schema_version > LOCAL_SCHEMA_VERSION
               \/ AnswerHeaders(answer).checksum # actual
               \/ /\ AnswerLatest(answer).checksum # NoChecksum
                  /\ AnswerLatest(answer).checksum # actual
       => /\ lastCall'.response.status = "error"
          /\ RestoreTargets(db'["A"]) = RestoreTargets(db["A"])]_vars

\* The same with a metadata checksum that is empty counted as one that
\* differs
C35_EveryChecksumChecked ==
    [][/\ BootstrapReachedSnapshot
       /\ LET answer == lastCall'.response.answer
               actual == sha256_checksum(AnswerBlob(answer))
           IN  \/ answer.schema_version > LOCAL_SCHEMA_VERSION
               \/ AnswerHeaders(answer).checksum # actual
               \/ AnswerLatest(answer).checksum # actual
       => /\ lastCall'.response.status = "error"
          /\ RestoreTargets(db'["A"]) = RestoreTargets(db["A"])]_vars

\* A bootstrap was refused for its checksum header on a store that holds
\* a row and a pending event, while the relay has a snapshot of two events
C35_Witness ==
    /\ lastCall.op = "bootstrap_snapshot"
    /\ lastCall.response.checked /\ lastCall.response.present
    /\ lastCall.response.answer.header = "other"
    /\ lastCall.response.answer.metadata = "same"
    /\ lastCall.response.answer.schema_version = LOCAL_SCHEMA_VERSION
    /\ lastCall.response.status = "error"
    /\ DOMAIN db["A"].goals # {}
    /\ DOMAIN db["A"].sync_outbox # {}
    /\ relay.snapshot.oplog_seq = 2

---------------------------------------------------------------------------
(* Claims on the entity metadata *)

\* C36: in every reachable state each row of the syncable table has its
\* entity-metadata row, keyed by the id of the row: after local writes
\* through the outbox writer, after remote replay and after a restore.
C36_MetadataPerRow ==
    \A s \in Stores :
        DOMAIN db[s].goals \subseteq DOMAIN db[s].sync_entity_metadata


---------------------------------------------------------------------------
(* Claims on the failure of validation *)

\* The highest seq of the events of a batch
RECURSIVE MaxSeqOf(_)
MaxSeqOf(events) ==
    IF events = <<>> THEN 0
    ELSE LET rest == MaxSeqOf(Tail(events))
         IN  IF Head(events).seq > rest THEN Head(events).seq ELSE rest

\* C37: when an event of a pulled batch fails validation during replay
\* (unknown column, primary key in the payload different from entity_id),
\* the cycle writes no retry hint (next_retry_at stays NULL) and the cursor
\* passes the batch, so that a later cycle does not pull the event again.
C37_ValidationFailureIsPermanent ==
    [][\A r \in Runners :
          LET response == lastCall'.response
              store == StoreOf(r)
              after == db'[topo.store[r]]
          IN  (/\ lastCall'.op = "pull_events"
               /\ lastCall'.runner = r
               /\ ReachesBatch(r, response)
               /\ SomeEventFails(store, BatchOf(r, response).events))
                 => /\ after.sync_engine_state.next_retry_in = 0
                    /\ get_cursor(after) >= MaxSeqOf(BatchOf(r, response).events)
      ]_vars

---------------------------------------------------------------------------
(* Push answers that list ids outside the batch of the request *)

InitListed == InitCommon /\ topo = StoreOnly("listed")

NextListed ==
    \/ LocalWrite("A")
    \/ Call("r1")
    \/ Begin("r1")
    \/ GetEventsCursor("r1")
    \/ PushEvents("r1")
    \/ VerifyCycleLock("r1")

SpecListed == InitListed /\ [][NextListed]_vars

\* C38: an outbox event becomes sent only in the step that handles the
\* answer to a push request, only if it was in the batch of that request
\* and only if the answer lists its id as accepted or duplicate; an id
\* listed by the relay that was not in the batch changes no outbox row.
C38_OnlyPushedEventsBecomeSent ==
    [][\A i \in DOMAIN db["A"].sync_outbox :
          (db["A"].sync_outbox[i].status # "sent"
             /\ db'["A"].sync_outbox[i].status = "sent")
            => /\ lastCall'.op = "push_events"
               /\ lastCall'.response.kind = "ok"
               /\ i \in lastCall'.response.accepted \cup lastCall'.response.duplicate
               /\ i \in SeqRange(ctx[lastCall'.runner].push_event_ids)
      ]_vars

---------------------------------------------------------------------------
(* The lock version.  Two processes run cycles on one database, with      *)
(* failures before and after the lock is taken, and snapshots are         *)
(* restored in between.                                                    *)

InitLock == InitCommon /\ topo = [SharedDatabase EXCEPT !.name = "lock"]

NextLock ==
    \/ \E r \in Runners : Call(r)
    \/ \E r \in Runners : Begin(r)
    \/ \E r \in Runners : GetEventsCursor(r)
    \/ \E r \in Runners : PushEvents(r)
    \/ \E r \in Runners : VerifyCycleLock(r)
    \/ \E r \in Runners : PullEvents(r)
    \/ LocalWrite("A")
    \/ SnapshotRestore("A")

SpecLock == InitLock /\ [][NextLock]_vars

\* The lock_version that acquire_cycle_lock reads: 0 when there is no row
StoredLockVersion(store) ==
    IF store.sync_engine_state.present
    THEN store.sync_engine_state.lock_version ELSE 0

\* The step is the begin of a cycle of r that reaches acquire_cycle_lock and
\* gets its value
Acquires(r) ==
    /\ lastCall'.op = "begin"
    /\ lastCall'.runner = r
    /\ lastCall'.response \in {"ok", "no_root_key"}

\* C39: a step in which acquire_cycle_lock completes returns a value above
\* the stored one and above every value returned before, and stores it; no
\* other step (the mark_* calls of a cycle, a restore) changes the stored
\* lock_version; so for a cycle that holds the value v, verify_cycle_lock(v)
\* is true after its own acquire and stays true exactly until another
\* acquire_cycle_lock completes on the database.
C39_LockVersion ==
    [][\A s \in Stores :
          LET before == StoredLockVersion(db[s])
              after == StoredLockVersion(db'[s])
              users == {r \in Runners : topo.store[r] = s}
          IN  /\ \A r \in users :
                    Acquires(r)
                      => /\ after > before
                         /\ ctx'[r].lock_version = after
                         /\ verify_cycle_lock(db'[s], after)
                         /\ \A q \in users : /\ after > ctx[q].lock_version
                                             /\ after > result[q].lock_version
              /\ (\A r \in users : ~Acquires(r)) => after = before
              /\ \A r \in users :
                    (InCycle(r) => ctx[r].lock_version >= 1)
                    /\ (ctx[r].lock_version >= 1 /\ ~Acquires(r))
                          => (verify_cycle_lock(db'[s], ctx[r].lock_version)
                                <=> /\ verify_cycle_lock(db[s], ctx[r].lock_version)
                                    /\ \A q \in users : ~Acquires(q))
      ]_vars

\* Two cycles hold the values 1 and 2, the older one no longer verifies, and
\* a snapshot was restored on their database without touching the value.
C39_Witness ==
    /\ lastCall.op = "restore"
    /\ lastCall.response.ok
    /\ ctx["r1"].lock_version = 1
    /\ ctx["r2"].lock_version = 2
    /\ ~verify_cycle_lock(db["A"], 1)
    /\ verify_cycle_lock(db["A"], 2)

---------------------------------------------------------------------------
(* The pull loop against a relay that chooses has_more and next_cursor     *)
(* freely in every response; the number of pull requests of a cycle is not *)
(* bounded.                                                                *)

InitPull == InitCommon /\ topo = StoreOnly("pull")

NextPull ==
    \/ LocalWrite("A")
    \/ Call("r1")
    \/ Begin("r1")
    \/ GetEventsCursor("r1")
    \/ PushEvents("r1")
    \/ VerifyCycleLock("r1")
    \/ PullEvents("r1")

SpecPull == InitPull /\ [][NextPull]_vars

\* Every request of a cycle is answered and the task of the cycle runs on
\* after each answer.
SpecPullLive ==
    /\ SpecPull
    /\ WF_vars(Begin("r1"))
    /\ WF_vars(GetEventsCursor("r1"))
    /\ WF_vars(PushEvents("r1"))
    /\ WF_vars(VerifyCycleLock("r1"))
    /\ WF_vars(PullEvents("r1"))

\* C40: a cycle that has taken the cycle mutex returns a result and gives
\* the mutex back, whatever the relay answers: after finitely many pull
\* requests also when a pull response has has_more = true and a next_cursor
\* that is not above the cursor of the request.
C40_CycleTerminates ==
    InCycle("r1") ~> (pc["r1"] = "idle" /\ mutex[topo.proc["r1"]] = NoRunner)

====
